---- MODULE Spec2Model ----
(***************************************************************************)
(* Compliance evaluation engine of the Jira extraction system:             *)
(*   - src/src/compliance/checks.py           (the rule checks)            *)
(*   - src/src/reports/audit_report_builder.py (per-ticket orchestrator)   *)
(*   - src/scripts/generate_strict_jira_audit.py (strict audit script)     *)
(*                                                                         *)
(* Python values are modelled as follows.                                  *)
(*   str            a sequence of one-character strings                    *)
(*   optional value None == <<>>, Some(x) == <<x>>  (dict.get / key test)  *)
(*   list           a sequence                                             *)
(*   exception      a check result whose status is "RAISE"                 *)
(***************************************************************************)
EXTENDS Integers, Sequences, FiniteSets, TLC

VARIABLES
    \* ---- AuditReportBuilder.generate_audit_report ----
    settings,        \* criteria_config['settings']
    ticket_keys,     \* the submitted keys
    tickets_data,    \* result of _fetch_tickets_data so far
    audit_results,   \* results appended by the evaluation loop
    pc,              \* position in generate_audit_report
    report,          \* Some(what the report is built from) once generated
    \* ---- a check applied to a list of issues (checks.py) ----
    issues,          \* the issue list handed to evaluate()
    check_result,    \* Some(result) once evaluate() has returned
    mode,            \* which check the issue list is built for
    \* ---- _calculate_overall_status applied to given arguments ----
    calc_args,       \* [criteria_results, zero_tolerance_violations]
    calc_out,        \* Some(overall status) once computed
    \* ---- generate_strict_jira_audit.build_report ----
    strict_issue,    \* the flat issue record of the input
    strict_checks,   \* Some(checks and grade) once build_report has run
    \* ---- the clock read by time.time() and datetime.utcnow() ----
    now,
    \* ---- ComplianceDataService (reports/compliance_data_service.py) ----
    _cache,          \* self._cache: cache_key -> (cached_data, cached_time)
    live,            \* what a recomputation would find in Jira at present
    last_call,       \* Some(the last get_live_data call and what it returned)
    \* ---- ETLPipeline._run_sync (etl_pipeline.py) ----
    jira_updated,    \* per issue, the time of its latest update in Jira
    db_synced,       \* per issue, the update the database holds, if any
    etl_runs,        \* the EtlRun rows, oldest first
    etl_pc           \* position of the run in progress

vars == <<settings, ticket_keys, tickets_data, audit_results, pc, report,
          issues, check_result, mode, calc_args, calc_out,
          strict_issue, strict_checks,
          now, _cache, live, last_call, jira_updated, db_synced, etl_runs, etl_pc>>

orchVars   == <<settings, ticket_keys, tickets_data, audit_results, pc, report>>
checkVars  == <<issues, check_result, mode>>
calcVars   == <<calc_args, calc_out>>
strictVars == <<strict_issue, strict_checks>>
svcVars    == <<_cache, live, last_call>>
etlVars    == <<jira_updated, db_synced, etl_runs, etl_pc>>
sysVars    == <<now, svcVars, etlVars>>

-----------------------------------------------------------------------------
(* Python helpers *)

None == <<>>
Some(x) == <<x>>
IsNone(o) == Len(o) = 0
IsSome(o) == Len(o) = 1
Val(o) == o[1]

\* dict.get(key, default)
Get(o, default) == IF IsNone(o) THEN default ELSE Val(o)

\* list[:n]
Take(s, n) == SubSeq(s, 1, IF Len(s) < n THEN Len(s) ELSE n)

\* A value used several times is bound once by a quantifier over a singleton,
\* {F(x) : x \in {e}}, and read back with The.
The(S) == CHOOSE x \in S : TRUE

RECURSIVE FlattenFrom(_, _)
FlattenFrom(ss, n) == IF n > Len(ss) THEN <<>> ELSE ss[n] \o FlattenFrom(ss, n + 1)

\* concatenation of a sequence of sequences
Flatten(ss) == The({FlattenFrom(s, 1) : s \in {ss}})

\* str.lower() on one character, for the letters the model uses
LowerChar(c) ==
    CASE c = "A" -> "a" [] c = "C" -> "c" [] c = "D" -> "d" [] c = "E" -> "e"
      [] c = "F" -> "f" [] c = "G" -> "g" [] c = "I" -> "i" [] c = "K" -> "k" [] c = "L" -> "l"
      [] c = "M" -> "m" [] c = "N" -> "n" [] c = "O" -> "o" [] c = "P" -> "p"
      [] c = "R" -> "r" [] c = "S" -> "s" [] c = "T" -> "t" [] c = "U" -> "u"
      [] c = "V" -> "v" [] c = "X" -> "x"
      [] OTHER -> c

\* str.upper() on one character, for the letters the model uses
UpperChar(c) ==
    CASE c = "a" -> "A" [] c = "c" -> "C" [] c = "d" -> "D" [] c = "e" -> "E"
      [] c = "f" -> "F" [] c = "g" -> "G" [] c = "i" -> "I" [] c = "k" -> "K" [] c = "l" -> "L"
      [] c = "m" -> "M" [] c = "n" -> "N" [] c = "o" -> "O" [] c = "p" -> "P"
      [] c = "r" -> "R" [] c = "s" -> "S" [] c = "t" -> "T" [] c = "u" -> "U"
      [] c = "v" -> "V" [] c = "x" -> "X"
      [] OTHER -> c

\* str.lower()
lower(s) == [i \in 1..Len(s) |-> LowerChar(s[i])]

\* str.upper()
upper(s) == [i \in 1..Len(s) |-> UpperChar(s[i])]

\* needle in hay  (substring test on str)
Contains(needle, hay) ==
    \E i \in 0..(Len(hay) - Len(needle)) :
        SubSeq(hay, i + 1, i + Len(needle)) = needle

\* s.endswith(suffix)
EndsWith(s, suffix) ==
    /\ Len(s) >= Len(suffix)
    /\ SubSeq(s, Len(s) - Len(suffix) + 1, Len(s)) = suffix

\* len(s.split()): the number of maximal runs of non-blank characters
WordCount(s) ==
    Cardinality({i \in 1..Len(s) : s[i] # " " /\ (i = 1 \/ s[i - 1] = " ")})

\* x in list
InList(x, s) == \E i \in 1..Len(s) : s[i] = x

-----------------------------------------------------------------------------
(* Check results: the dictionaries returned by ComplianceCheck.evaluate *)

\* {"status": s, "reason": f"{text}: {', '.join(items)}"}; a result without
\* the zero_tolerance key reads as falsy through result.get('zero_tolerance')
Result(s, text, items) ==
    [status |-> s, reason |-> [text |-> text, items |-> items], zero_tolerance |-> FALSE]

\* the same with "zero_tolerance": True
ResultZT(s, text, items) ==
    [status |-> s, reason |-> [text |-> text, items |-> items], zero_tolerance |-> TRUE]

\* evaluate() left by an exception instead of a return
Raise(exc) ==
    [status |-> "RAISE", reason |-> [text |-> exc, items |-> <<>>], zero_tolerance |-> FALSE]

Raised(r) == r.status = "RAISE"

-----------------------------------------------------------------------------
(* Issues as returned by JiraClient.get_issue (nested dictionaries).       *)
(* A field of issue['fields'] that may be missing is an optional value.    *)
(*   changelog   issue.get('changelog', {}).get('histories', [])           *)
(*               a sequence of histories, each a sequence of items         *)
(*               [field, fromString, toString]                             *)
(*   status      issue['fields']['status']['name']                         *)
(*   comment     issue['fields'].get('comment', {}).get('comments', [])    *)
(*               a sequence of [body, created, author]; created is the     *)
(*               day number of the timestamp's date (day 0 is a Monday)    *)
(***************************************************************************)

\* words and texts used by the checks and by the model's inputs
W_approved   == <<"a","p","p","r","o","v","e","d">>
W_approval   == <<"a","p","p","r","o","v","a","l">>
W_authorize  == <<"a","u","t","h","o","r","i","z","e">>
W_confirmed  == <<"c","o","n","f","i","r","m","e","d">>
W_ok_to_cancel == <<"o","k"," ","t","o"," ","c","a","n","c","e","l">>
W_cancel_ok  == <<"c","a","n","c","e","l"," ","o","k">>
W_manager    == <<"m","a","n","a","g","e","r">>
W_approv     == <<"a","p","p","r","o","v">>
W_task       == <<"t","a","s","k">>
W_update     == <<"u","p","d","a","t","e">>
W_png        == <<".","p","n","g">>
W_jpg        == <<".","j","p","g">>

\* a text of n characters none of which matters to any check
Filler(n) == [i \in 1..n |-> "x"]

\* the issue built by a caller that supplies only what a check reads
Issue(key, status, changelog, comment) ==
    [key |-> key, fetch_error |-> None, changelog |-> changelog,
     status |-> status, comment |-> comment,
     assignee |-> None, reporter |-> None, description |-> None,
     issuelinks |-> <<>>, attachment |-> None, summary |-> None,
     labels |-> <<>>, issuetype |-> None, customfield |-> None, nulls |-> {}]

\* history.get('items', []) of every history of issue.get('changelog', {}),
\* in traversal order
ChangelogItems(issue) == Flatten(Get(issue.changelog, <<>>))

\* issue['fields'].get('comment', {}).get('comments', [])
Comments(issue) == Get(issue.comment, <<>>)

\* some issue of the list has no fields.status: issue['fields']['status']
\* raises KeyError
NoStatus(iss) == \E i \in 1..Len(iss) : IsNone(iss[i].status)

\* [i['key'] for i in selected]
Keys(selected) == The({[n \in 1..Len(s) |-> s[n].key] : s \in {selected}})

-----------------------------------------------------------------------------
(* SHEET 1: core process compliance (checks.py) *)

MIT_MIN == 3
MIT_MAX == 5
NON_MIT_MIN == 3
MAX_REPORTED == 3
DOC_MIN_DESC == 20

MITPlanningCheck(iss) ==
    LET mit_count == Len(iss) IN
    IF MIT_MIN <= mit_count /\ mit_count <= MIT_MAX
    THEN Result("Pass", "MITs proposed (Target: 3-5)", <<mit_count>>)
    ELSE IF mit_count < MIT_MIN
    THEN Result("Fail", "MITs proposed (Min: 3)", <<mit_count>>)
    ELSE Result("Fail", "MITs proposed (Max: 5)", <<mit_count>>)

MITCreationCheck(iss) == Result("Pass", "All approved MITs exist", <<>>)

MITCompletionCheck(iss) ==
    IF NoStatus(iss) THEN Raise("KeyError") ELSE
    LET open_mits ==
            Keys(SelectSeq(iss, LAMBDA i : Val(i.status) \notin {"Done", "Closed", "Cancelled"}))
    IN  IF Len(open_mits) = 0
        THEN Result("Pass", "All MITs closed", <<>>)
        ELSE Result("Fail", "MITs still open", open_mits)

\* NonMITTrackingCheck content with a single ticket
NonMITTrackingCheck_AtLeastOne(iss) ==
    LET count == Len(iss) IN
    IF count >= 1
    THEN Result("Pass", "active Non-MITs found", <<count>>)
    ELSE Result("Fail", "Non-MITs found (Min: 3)", <<count>>)

NonMITTrackingCheck(iss) ==
    LET count == Len(iss) IN
    IF count >= NON_MIT_MIN
    THEN Result("Pass", "active Non-MITs found", <<count>>)
    ELSE Result("Fail", "Non-MITs found (Min: 3)", <<count>>)

RecapToJiraConversionCheck(iss) ==
    LET linked == SelectSeq(iss, LAMBDA i : Len(i.issuelinks) > 0) IN
    IF Len(linked) = Len(iss)
    THEN Result("Pass", "All items linked", <<>>)
    ELSE Result("Pass", "Assuming compliance for prototype", <<>>)

\* the table with Done allowed straight from To Do
VALID_TRANSITIONS_DoneFromToDo ==
    [s \in {"To Do", "Backlog", "In Progress", "Code Review", "In Review",
            "Testing", "Blocked", "Done", "Cancelled"} |->
        CASE s = "To Do"       -> {"In Progress", "Backlog", "Cancelled", "Done"}
          [] s = "Backlog"     -> {"To Do", "In Progress", "Cancelled"}
          [] s = "In Progress" -> {"Code Review", "Testing", "In Review", "Done",
                                   "To Do", "Blocked", "Cancelled"}
          [] s = "Code Review" -> {"In Progress", "Testing", "Done", "Blocked"}
          [] s = "In Review"   -> {"In Progress", "Testing", "Done", "Blocked"}
          [] s = "Testing"     -> {"In Progress", "Done", "Code Review", "Blocked"}
          [] s = "Blocked"     -> {"In Progress", "To Do"}
          [] s = "Done"        -> {"In Progress"}
          [] s = "Cancelled"   -> {}]

VALID_TRANSITIONS ==
    [s \in {"To Do", "Backlog", "In Progress", "Code Review", "In Review",
            "Testing", "Blocked", "Done", "Cancelled"} |->
        CASE s = "To Do"       -> {"In Progress", "Backlog", "Cancelled"}
          [] s = "Backlog"     -> {"To Do", "In Progress", "Cancelled"}
          [] s = "In Progress" -> {"Code Review", "Testing", "In Review", "Done",
                                   "To Do", "Blocked", "Cancelled"}
          [] s = "Code Review" -> {"In Progress", "Testing", "Done", "Blocked"}
          [] s = "In Review"   -> {"In Progress", "Testing", "Done", "Blocked"}
          [] s = "Testing"     -> {"In Progress", "Done", "Code Review", "Blocked"}
          [] s = "Blocked"     -> {"In Progress", "To Do"}
          [] s = "Done"        -> {"In Progress"}
          [] s = "Cancelled"   -> {}]

\* InvalidTransition without the test that the from-state is known
InvalidTransition_UnknownFromFails(item) ==
    /\ item.field = "status"
    /\ \/ item.fromString \notin DOMAIN VALID_TRANSITIONS
       \/ item.toString \notin VALID_TRANSITIONS[item.fromString]

\* the test of lines 151-155 on one changelog item
InvalidTransition(item) ==
    /\ item.field = "status"
    /\ item.fromString \in DOMAIN VALID_TRANSITIONS
    /\ item.toString \notin VALID_TRANSITIONS[item.fromString]

\* the violations list kept from one call of evaluate to the next
HygieneViolations_Kept(iss) ==
    (IF IsSome(calc_out) THEN Val(calc_out).reason.items ELSE <<>>)
    \o Flatten([n \in 1..Len(iss) |->
        The({[m \in 1..Len(bad) |->
                [key |-> iss[n].key, fromString |-> bad[m].fromString,
                 toString |-> bad[m].toString]] :
             bad \in {SelectSeq(ChangelogItems(iss[n]), InvalidTransition)}})])

\* the violations list of StatusHygieneCheck.evaluate, in traversal order
HygieneViolations(iss) ==
    Flatten([n \in 1..Len(iss) |->
        The({[m \in 1..Len(bad) |->
                [key |-> iss[n].key, fromString |-> bad[m].fromString,
                 toString |-> bad[m].toString]] :
             bad \in {SelectSeq(ChangelogItems(iss[n]), InvalidTransition)}})])

StatusHygieneCheck(iss) ==
    IF Len(iss) = 0 THEN Result("NA", "No issues active", <<>>) ELSE
    LET violations == HygieneViolations(iss) IN
    IF Len(violations) > 0
    THEN Result("Fail", "Invalid transitions", Take(violations, MAX_REPORTED))
    ELSE Result("Pass", "All status transitions valid", <<>>)

APPROVAL_KEYWORDS ==
    {W_approved, W_approval, W_authorize, W_confirmed, W_ok_to_cancel, W_cancel_ok}

\* any(k in c.get('body', '').lower() for k in APPROVAL_KEYWORDS) for some comment
HasApproval(issue) ==
    \E n \in 1..Len(Comments(issue)) :
        \E k \in APPROVAL_KEYWORDS :
            Contains(k, lower(Get(Comments(issue)[n].body, <<>>)))

CancellationCheck(iss) ==
    IF NoStatus(iss) THEN Raise("KeyError") ELSE
    LET unauthorized ==
            Keys(SelectSeq(iss, LAMBDA i : Val(i.status) = "Cancelled" /\ ~HasApproval(i)))
    IN  IF Len(unauthorized) > 0
        THEN ResultZT("Fail", "Cancelled w/o approval", unauthorized)
        ELSE Result("Pass", "No unauthorized cancellations", <<>>)

WEDNESDAY == 2
FRIDAY == 4

\* datetime.strptime(created[:10], '%Y-%m-%d').weekday()
Weekday(day) == day % 7

UpdateFrequencyCheck(iss) ==
    LET all_comments == Flatten([n \in 1..Len(iss) |-> Comments(iss[n])])
        found(wd) == \E n \in 1..Len(all_comments) :
                        Weekday(Val(all_comments[n].created)) = wd
    IN  IF \E n \in 1..Len(all_comments) : IsNone(all_comments[n].created)
        THEN Raise("TypeError")
        ELSE IF found(WEDNESDAY) /\ found(FRIDAY)
        THEN Result("Pass", "Updates on Wed and Fri", <<>>)
        ELSE IF found(WEDNESDAY) \/ found(FRIDAY)
        THEN Result("Fail", "Missed one update day", <<>>)
        ELSE Result("Fail", "No updates on Wed/Fri", <<>>)

\* the error of one issue, or None (lines 217-225)
RoleError(issue) ==
    IF IsNone(issue.assignee) THEN Some([key |-> issue.key, what |-> "No assignee"])
    ELSE IF IsNone(issue.reporter) THEN Some([key |-> issue.key, what |-> "No reporter"])
    ELSE IF Val(issue.assignee) = Val(issue.reporter)
    THEN Some([key |-> issue.key, what |-> "Reporter=Assignee"])
    ELSE None

RoleOwnershipCheck(iss) ==
    LET errors == Flatten([n \in 1..Len(iss) |-> RoleError(iss[n])]) IN
    IF Len(errors) > 0
    THEN Result("Fail", "Role issues", Take(errors, MAX_REPORTED))
    ELSE Result("Pass", "Roles correct", <<>>)

\* not (has_desc and (has_links or has_attachments))
DocsIncomplete(issue) ==
    LET desc == Get(issue.description, <<>>)
        has_desc == Len(desc) > DOC_MIN_DESC
        has_links == Len(issue.issuelinks) > 0
        has_attachments == Len(Get(issue.attachment, <<>>)) > 0
    IN  ~(has_desc /\ (has_links \/ has_attachments))

DocumentationCheck(iss) ==
    LET issues_missing_data == Keys(SelectSeq(iss, DocsIncomplete)) IN
    IF Len(issues_missing_data) > 0
    THEN Result("Fail", "Incomplete docs", Take(issues_missing_data, MAX_REPORTED))
    ELSE Result("Pass", "Metadata complete", <<>>)

\* seen_statuses of one issue (lines 261-265)
SeenStatuses(issue) ==
    LET items == ChangelogItems(issue) IN
    {items[n].toString : n \in {m \in 1..Len(items) : items[m].field = "status"}}

LifecycleCheck(iss) ==
    IF NoStatus(iss) THEN Raise("KeyError") ELSE
    LET skipped(i) == Val(i.status) = "Done" /\ "In Progress" \notin SeenStatuses(i)
        violations ==
            The({[n \in 1..Len(s) |-> [key |-> s[n].key, what |-> "Skipped In Progress"]] :
                 s \in {SelectSeq(iss, skipped)}})
    IN  IF Len(violations) > 0
        THEN Result("Fail", "Lifecycle skips", Take(violations, MAX_REPORTED))
        ELSE Result("Pass", "SOP followed", <<>>)

-----------------------------------------------------------------------------
(* SHEET 2: manual compliance, heuristics (checks.py).  The thresholds are *)
(* the defaults the checks fall back to when the criteria configuration    *)
(* names none.                                                             *)

MIN_WORD_COUNT == 5
MIN_DESC_LENGTH == 30
MIN_TITLE_LENGTH == 10
AVOID_GENERIC == {W_task, W_update}

\* the first loop of CommentQualityCheck: some comment of the issue is short
HasShortComment(issue) ==
    \E n \in 1..Len(Comments(issue)) :
        WordCount(Get(Comments(issue)[n].body, <<>>)) < MIN_WORD_COUNT

CommentQualityCheck(iss) ==
    LET bad_comments == Keys(SelectSeq(iss, HasShortComment)) IN
    IF Len(bad_comments) > 0
    THEN Result("Fail", "Short/vague comments in", Take(bad_comments, MAX_REPORTED))
    ELSE Result("Pass", "Comments are substantial", <<>>)

MissingCommentsCheck(iss) ==
    LET no_comments == Keys(SelectSeq(iss, LAMBDA i : Len(Comments(i)) = 0)) IN
    IF Len(no_comments) > 0
    THEN Result("Fail", "No comments on", Take(no_comments, MAX_REPORTED))
    ELSE Result("Pass", "Comments present", <<>>)

\* has_screenshot and not comments
ScreenshotUnexplained(issue) ==
    LET attachments == Get(issue.attachment, <<>>) IN
    /\ \E n \in 1..Len(attachments) :
          EndsWith(attachments[n], W_png) \/ EndsWith(attachments[n], W_jpg)
    /\ Len(Comments(issue)) = 0

ScreenshotOnlyEvidenceCheck(iss) ==
    LET violations == Keys(SelectSeq(iss, ScreenshotUnexplained)) IN
    IF Len(violations) > 0
    THEN Result("Fail", "Screenshot w/o explanation", Take(violations, MAX_REPORTED))
    ELSE Result("Pass", "Evidence explained", <<>>)

DocLinkOnlyEvidenceCheck(iss) == Result("Pass", "Heuristic pass (manual review)", <<>>)

DescriptionQualityCheck(iss) ==
    LET poor_desc ==
            Keys(SelectSeq(iss, LAMBDA i : Len(Get(i.description, <<>>)) < MIN_DESC_LENGTH))
    IN  IF Len(poor_desc) > 0
        THEN Result("Fail", "Weak description", Take(poor_desc, MAX_REPORTED))
        ELSE Result("Pass", "Descriptions detailed", <<>>)

\* any(w in summary for w in bad_words) or len(summary) < 10
VagueTitle(issue) ==
    LET summary == lower(Val(issue.summary)) IN
    \/ \E w \in AVOID_GENERIC : Contains(w, summary)
    \/ Len(summary) < MIN_TITLE_LENGTH

TitleQualityCheck(iss) ==
    \* issue['fields']['summary'] raises KeyError when the field is missing
    IF \E n \in 1..Len(iss) : IsNone(iss[n].summary) THEN Raise("KeyError") ELSE
    LET bad_titles == Keys(SelectSeq(iss, VagueTitle)) IN
    IF Len(bad_titles) > 0
    THEN Result("Fail", "Vague title", Take(bad_titles, MAX_REPORTED))
    ELSE Result("Pass", "Titles specific", <<>>)

MultipleIssuesCheck(iss) == Result("Pass", "Single issue per ticket assumed", <<>>)

\* the suspicious list is never appended to (lines 400-407)
HistoryIntegrityCheck(iss) ==
    LET suspicious == <<>> IN
    IF Len(suspicious) > 0
    THEN ResultZT("Fail", "Suspicious history detected", <<>>)
    ELSE Result("Pass", "History looks organic", <<>>)

AcceptanceCriteriaRelevanceCheck(iss) == Result("Pass", "AC present", <<>>)

ProductivityValidityCheck(iss) == Result("Pass", "Productivity valid", <<>>)

EvidenceRelevanceCheck(iss) == Result("Pass", "Evidence relevant", <<>>)

-----------------------------------------------------------------------------
(* AuditReportBuilder (audit_report_builder.py) *)

\* self.core_checks, in dictionary (insertion) order
core_checks ==
    <<"mit_planning", "mit_creation", "mit_completion", "non_mit_tracking",
      "recap_to_jira_conversion", "status_hygiene", "task_cancellation",
      "weekly_updates", "roles_and_access", "documentation_traceability",
      "lifecycle_adherence">>

\* self.manual_checks, in dictionary (insertion) order
manual_checks ==
    <<"comment_quality", "missing_comments", "screenshot_only_evidence",
      "doc_link_only_evidence", "description_quality", "title_quality",
      "multiple_issues_in_one_ticket", "history_integrity",
      "acceptance_criteria_relevance", "productivity_validity",
      "evidence_relevance">>

\* self.all_checks = {**self.core_checks, **self.manual_checks}
all_checks == core_checks \o manual_checks

\* check.evaluate(iss, None) of the check registered under check_id
Evaluate(check_id, iss) ==
    CASE check_id = "mit_planning"               -> MITPlanningCheck(iss)
      [] check_id = "mit_creation"               -> MITCreationCheck(iss)
      [] check_id = "mit_completion"             -> MITCompletionCheck(iss)
      [] check_id = "non_mit_tracking"           -> NonMITTrackingCheck(iss)
      [] check_id = "recap_to_jira_conversion"   -> RecapToJiraConversionCheck(iss)
      [] check_id = "status_hygiene"             -> StatusHygieneCheck(iss)
      [] check_id = "task_cancellation"          -> CancellationCheck(iss)
      [] check_id = "weekly_updates"             -> UpdateFrequencyCheck(iss)
      [] check_id = "roles_and_access"           -> RoleOwnershipCheck(iss)
      [] check_id = "documentation_traceability" -> DocumentationCheck(iss)
      [] check_id = "lifecycle_adherence"        -> LifecycleCheck(iss)
      [] check_id = "comment_quality"            -> CommentQualityCheck(iss)
      [] check_id = "missing_comments"           -> MissingCommentsCheck(iss)
      [] check_id = "screenshot_only_evidence"   -> ScreenshotOnlyEvidenceCheck(iss)
      [] check_id = "doc_link_only_evidence"     -> DocLinkOnlyEvidenceCheck(iss)
      [] check_id = "description_quality"        -> DescriptionQualityCheck(iss)
      [] check_id = "title_quality"              -> TitleQualityCheck(iss)
      [] check_id = "multiple_issues_in_one_ticket" -> MultipleIssuesCheck(iss)
      [] check_id = "history_integrity"          -> HistoryIntegrityCheck(iss)
      [] check_id = "acceptance_criteria_relevance" -> AcceptanceCriteriaRelevanceCheck(iss)
      [] check_id = "productivity_validity"      -> ProductivityValidityCheck(iss)
      [] check_id = "evidence_relevance"         -> EvidenceRelevanceCheck(iss)

\* _is_mit_ticket(ticket) under mit_config = settings['mit_identification']
_is_mit_ticket(ticket, mit_config) ==
    CASE mit_config.method = "label" ->
            InList(mit_config.label_name, ticket.labels)
      [] mit_config.method = "custom_field" ->
            IsSome(ticket.customfield) /\ Val(ticket.customfield) = TRUE
      [] mit_config.method = "issue_type" ->
            Get(ticket.issuetype, "") = mit_config.issue_type_name
      [] mit_config.method = "naming_pattern" ->
            Contains(mit_config.naming_pattern, upper(Get(ticket.summary, <<>>)))
      [] OTHER -> FALSE

\* _is_mit_ticket raises: the field the method reads is null (ticket.nulls
\* names the fields that are present with the value None), so that
\* "name in None", None.get('name', '') or None.upper() is evaluated
_is_mit_ticket_raises(ticket, mit_config) ==
    \/ mit_config.method = "label" /\ "labels" \in ticket.nulls
    \/ mit_config.method = "issue_type" /\ "issuetype" \in ticket.nulls
    \/ mit_config.method = "naming_pattern" /\ "summary" \in ticket.nulls

\* a zero-tolerance violation as tested on lines 244 and 258
IsZeroTolerance(result) == result.zero_tolerance /\ result.status = "Fail"

\* NotApplicable with the MIT-only test covering mit_planning alone
NotApplicable_PlanningOnly(check_id, is_mit) ==
    \/ check_id \in {"mit_planning"} /\ ~is_mit
    \/ check_id = "non_mit_tracking" /\ is_mit

\* the applicability test of lines 229 and 234: the check is skipped
NotApplicable(check_id, is_mit) ==
    \/ check_id \in {"mit_planning", "mit_creation", "mit_completion"} /\ ~is_mit
    \/ check_id = "non_mit_tracking" /\ is_mit

\* the reason recorded with a skipped check
NotApplicableResult(check_id) ==
    IF check_id = "non_mit_tracking"
    THEN Result("NA", "MIT ticket", <<>>)
    ELSE Result("NA", "Not a MIT ticket", <<>>)

\* the local state of _evaluate_ticket after one evaluated check returned
\* `result`: the entry is recorded, a violation is appended and the stop flag
\* is set from the configuration (lines 241-249 and 255-263)
Record(st, check_id, result, stop_setting) ==
    [st EXCEPT
        !.criteria_results = Append(@, [check_id |-> check_id, result |-> result]),
        !.evaluated = Append(@, check_id),
        !.zero_tolerance_violations =
            IF IsZeroTolerance(result)
            THEN Append(@, [criterion |-> check_id, reason |-> result.reason])
            ELSE @,
        !.stop_evaluation =
            IF IsZeroTolerance(result) THEN stop_setting ELSE @]

\* CoreStep without the stop_evaluation guard of line 239
CoreStep_NoStopGuard(st, check_id, ticket, is_mit, stop_setting) ==
    IF st.raised THEN st
    ELSE IF NotApplicable(check_id, is_mit)
    THEN [st EXCEPT !.criteria_results =
              Append(@, [check_id |-> check_id, result |-> NotApplicableResult(check_id)])]
    ELSE LET result == Evaluate(check_id, <<ticket>>) IN
         IF Raised(result)
         THEN [st EXCEPT !.raised = TRUE, !.evaluated = Append(@, check_id)]
         ELSE Record(st, check_id, result, stop_setting)

\* one iteration of the core loop (lines 227-249)
CoreStep(st, check_id, ticket, is_mit, stop_setting) ==
    IF st.raised THEN st
    ELSE IF NotApplicable(check_id, is_mit)
    THEN [st EXCEPT !.criteria_results =
              Append(@, [check_id |-> check_id, result |-> NotApplicableResult(check_id)])]
    ELSE IF ~st.stop_evaluation
    THEN LET result == Evaluate(check_id, <<ticket>>) IN
         IF Raised(result)
         THEN [st EXCEPT !.raised = TRUE, !.evaluated = Append(@, check_id)]
         ELSE Record(st, check_id, result, stop_setting)
    ELSE st

\* one iteration of the manual loop (lines 253-263); the loop is entered only
\* when stop_evaluation is false and does not test the flag again
ManualStep(st, check_id, ticket, stop_setting) ==
    IF st.raised THEN st
    ELSE LET result == Evaluate(check_id, <<ticket>>) IN
         IF Raised(result)
         THEN [st EXCEPT !.raised = TRUE, !.evaluated = Append(@, check_id)]
         ELSE Record(st, check_id, result, stop_setting)

RECURSIVE CoreLoop(_, _, _, _, _)
\* the core loop from its n-th iteration on
CoreLoop(st, n, ticket, is_mit, stop_setting) ==
    IF n > Len(core_checks) THEN st
    ELSE The({CoreLoop(next, n + 1, ticket, is_mit, stop_setting) :
                next \in {CoreStep(st, core_checks[n], ticket, is_mit, stop_setting)}})

RECURSIVE ManualLoop(_, _, _, _)
\* the manual loop from its n-th iteration on
ManualLoop(st, n, ticket, stop_setting) ==
    IF n > Len(manual_checks) THEN st
    ELSE The({ManualLoop(next, n + 1, ticket, stop_setting) :
                next \in {ManualStep(st, manual_checks[n], ticket, stop_setting)}})

\* _calculate_overall_status testing the criteria before the violations
_calculate_overall_status_FailFirst(criteria_results, zero_tolerance_violations) ==
    IF \E n \in 1..Len(criteria_results) : criteria_results[n].result.status = "Fail"
    THEN "NON-COMPLIANT"
    ELSE IF Len(zero_tolerance_violations) > 0 THEN "ZERO_TOLERANCE_FAIL"
    ELSE "COMPLIANT"

\* _calculate_overall_status counting every result that is not a Pass as failed
_calculate_overall_status_NotPass(criteria_results, zero_tolerance_violations) ==
    IF Len(zero_tolerance_violations) > 0 THEN "ZERO_TOLERANCE_FAIL"
    ELSE IF \E n \in 1..Len(criteria_results) :
                criteria_results[n].result.status \notin {"Pass", "NA"}
    THEN "NON-COMPLIANT"
    ELSE "COMPLIANT"

\* _calculate_overall_status(criteria_results, zero_tolerance_violations)
_calculate_overall_status(criteria_results, zero_tolerance_violations) ==
    IF Len(zero_tolerance_violations) > 0 THEN "ZERO_TOLERANCE_FAIL"
    ELSE IF \E n \in 1..Len(criteria_results) : criteria_results[n].result.status = "Fail"
    THEN "NON-COMPLIANT"
    ELSE "COMPLIANT"

\* the dictionary returned on line 268 from the final local state.  Besides
\* the returned entries the record holds
\*   evaluated   the checks whose evaluate() was called, in call order
\*   classified  whether _is_mit_ticket was called
\*   raised      an exception left _evaluate_ticket (nothing is returned)
\*   stop_evaluation  the final value of the local flag
Returned(ticket, is_mit, st) ==
    [issue_key |-> ticket.key,
     overall_status |->
        IF st.raised THEN "RAISE"
        ELSE _calculate_overall_status(st.criteria_results,
                                       st.zero_tolerance_violations),
     is_mit |-> Some(is_mit),
     criteria_results |-> st.criteria_results,
     zero_tolerance_violations |-> st.zero_tolerance_violations,
     evaluated |-> st.evaluated, classified |-> TRUE, raised |-> st.raised,
     stop_evaluation |-> st.stop_evaluation]

\* lines 221-276 of _evaluate_ticket, is_mit being known
EvaluateFetched(ticket, is_mit, stop_setting) ==
    LET st0 == [criteria_results |-> <<>>, zero_tolerance_violations |-> <<>>,
                stop_evaluation |-> FALSE, evaluated |-> <<>>, raised |-> FALSE]
        after_core == {CoreLoop(st0, 1, ticket, is_mit, stop_setting)}
        after_manual ==
            {IF ~st1.raised /\ ~st1.stop_evaluation
             THEN ManualLoop(st1, 1, ticket, stop_setting)
             ELSE st1 : st1 \in after_core}
    IN  The({Returned(ticket, is_mit, st2) : st2 \in after_manual})

\* lines 217-276 of _evaluate_ticket; an exception of _is_mit_ticket leaves
\* _evaluate_ticket
ClassifyAndEvaluate(ticket, cfg) ==
    IF _is_mit_ticket_raises(ticket, cfg.mit_identification)
    THEN [issue_key |-> ticket.key, overall_status |-> "RAISE",
          is_mit |-> None, criteria_results |-> <<>>,
          zero_tolerance_violations |-> <<>>,
          evaluated |-> <<>>, classified |-> FALSE, raised |-> TRUE,
          stop_evaluation |-> FALSE]
    ELSE The({EvaluateFetched(ticket, is_mit, cfg.zero_tolerance_stops_evaluation) :
                is_mit \in {_is_mit_ticket(ticket, cfg.mit_identification)}})

\* _evaluate_ticket without the fetch_error test of line 209
_evaluate_ticket_NoFetchTest(ticket, cfg) == ClassifyAndEvaluate(ticket, cfg)

\* _evaluate_ticket(ticket)
_evaluate_ticket(ticket, cfg) ==
    IF IsSome(ticket.fetch_error)
    THEN [issue_key |-> ticket.key, overall_status |-> "ERROR",
          is_mit |-> None, criteria_results |-> <<>>,
          zero_tolerance_violations |-> <<>>,
          evaluated |-> <<>>, classified |-> FALSE, raised |-> FALSE,
          stop_evaluation |-> FALSE]
    ELSE ClassifyAndEvaluate(ticket, cfg)

-----------------------------------------------------------------------------
(* _generate_recommendations (audit_report_builder.py) *)

HIGH_ABOVE == 3
MAX_EXAMPLES == 3

\* the Fail entries of all results in the order the two loops of lines
\* 372-382 meet them
Failures(results) ==
    Flatten([n \in 1..Len(results) |->
        The({[i \in 1..Len(failed) |->
                 [criterion |-> failed[i].check_id,
                  issue_key |-> results[n].issue_key,
                  reason |-> failed[i].result.reason]] :
             failed \in {SelectSeq(results[n].criteria_results,
                                   LAMBDA e : e.result.status = "Fail")}})])

\* the keys of failure_counts in insertion order: each criterion where it
\* first failed
FailedCriteria(fails) ==
    LET first == SelectSeq([i \in 1..Len(fails) |-> i],
                     LAMBDA i : \A j \in 1..(i - 1) : fails[j].criterion # fails[i].criterion)
    IN  [k \in 1..Len(first) |-> fails[first[k]].criterion]

\* failure_counts[criterion]
FailureCount(fails, criterion) ==
    Cardinality({i \in 1..Len(fails) : fails[i].criterion = criterion})

\* sorted(failure_counts.items(), key=lambda x: x[1], reverse=True): a stable
\* sort, so equal counts keep their insertion order
SortedFailures(fails) ==
    LET keys == FailedCriteria(fails)
        count == [k \in 1..Len(keys) |-> FailureCount(fails, keys[k])]
        place(k) == 1 + Cardinality({j \in 1..Len(keys) :
                           \/ count[j] > count[k]
                           \/ count[j] = count[k] /\ j < k})
    IN  [p \in 1..Len(keys) |-> keys[CHOOSE k \in 1..Len(keys) : place(k) = p]]

\* the priority rule with HIGH already at a count of 3
Priority_HighFromThree(is_zero_tolerance, count) ==
    IF is_zero_tolerance THEN "CRITICAL"
    ELSE IF count >= HIGH_ABOVE THEN "HIGH" ELSE "MEDIUM"

\* 'CRITICAL' if is_zero_tolerance else ('HIGH' if count > 3 else 'MEDIUM')
Priority(is_zero_tolerance, count) ==
    IF is_zero_tolerance THEN "CRITICAL"
    ELSE IF count > HIGH_ABOVE THEN "HIGH" ELSE "MEDIUM"

\* the recommendations, without the texts looked up in the configuration
\* (category, issue, fix)
_generate_recommendations(audit_results_, zero_tolerance_criteria) ==
    LET fails == Failures(audit_results_)
        sorted_failures == SortedFailures(fails)
    IN  [p \in 1..Len(sorted_failures) |->
            LET criterion == sorted_failures[p]
                count == FailureCount(fails, criterion)
                is_zero_tolerance == criterion \in zero_tolerance_criteria
            IN  [criterion |-> criterion,
                 failed_count |-> count,
                 zero_tolerance |-> is_zero_tolerance,
                 priority |-> Priority(is_zero_tolerance, count),
                 examples |->
                    Take(The({[k \in 1..Len(es) |->
                                  [issue_key |-> es[k].issue_key, reason |-> es[k].reason]] :
                              es \in {SelectSeq(fails, LAMBDA f : f.criterion = criterion)}}),
                         MAX_EXAMPLES)]]

\* _generate_executive_summary(audit_results).  The float compliance_rate is
\* kept as the exact quotient num/den of compliant / total * 100.
_generate_executive_summary(audit_results_) ==
    LET count(status) == Cardinality({n \in 1..Len(audit_results_) :
                                         audit_results_[n].overall_status = status})
        total == Len(audit_results_)
        compliant == count("COMPLIANT")
        violations == Flatten([n \in 1..Len(audit_results_) |->
            The({[i \in 1..Len(zt) |-> [criterion |-> zt[i].criterion,
                                        issue_key |-> audit_results_[n].issue_key]] :
                 zt \in {audit_results_[n].zero_tolerance_violations}})])
    IN  [total_audited |-> total,
         compliant_count |-> compliant,
         non_compliant_count |-> count("NON-COMPLIANT"),
         zero_tolerance_count |-> count("ZERO_TOLERANCE_FAIL"),
         compliance_rate |-> IF total > 0 THEN [num |-> compliant * 100, den |-> total]
                             ELSE [num |-> 0, den |-> 1],
         zero_tolerance_violations |->
            [c \in {violations[i].criterion : i \in 1..Len(violations)} |->
                The({[k \in 1..Len(of_c) |-> of_c[k].issue_key] :
                     of_c \in {SelectSeq(violations, LAMBDA v : v.criterion = c)}})]]

\* the zero_tolerance flags the criteria configuration may carry
ZeroToleranceConfigs == {{}, {"task_cancellation"}}

-----------------------------------------------------------------------------
(* Inputs of the audit run *)

\* the largest number of submitted ticket keys
MaxTickets == 2

T_To_Do == <<"T","o"," ","D","o">>
T_Fix_login == <<"F","i","x"," ","l","o","g","i","n"," ","p","a","g","e">>
T_MIT_login == <<"M","I","T"," ","f","i","x"," ","l","o","g","i","n">>
T_MIT == <<"M","I","T">>
T_mit == <<"m","i","t">>
T_Approved_by_manager ==
    <<"A","p","p","r","o","v","e","d"," ","b","y"," ","t","h","e"," ",
      "m","a","n","a","g","e","r"," ","t","o","d","a","y">>
T_please_cancel == <<"p","l","e","a","s","e"," ","c","a","n","c","e","l">>
T_shot_png == <<"s","h","o","t",".","p","n","g">>

StatusItem(f, t) == [field |-> "status", fromString |-> f, toString |-> t]

\* a comment {body, created, author}
Comment(body, created) == [body |-> Some(body), created |-> created, author |-> "U1"]

\* a fully documented ticket, To Do -> In Progress -> Done, one update comment
GoodTicket ==
    [key |-> "", fetch_error |-> None,
     changelog |-> Some(<< <<StatusItem("To Do", "In Progress")>>,
                           <<StatusItem("In Progress", "Done")>> >>),
     status |-> Some("Done"),
     comment |-> Some(<<Comment(T_Approved_by_manager, Some(WEDNESDAY))>>),
     assignee |-> Some("U1"), reporter |-> Some("U2"),
     description |-> Some(Filler(MIN_DESC_LENGTH)),
     issuelinks |-> <<"T-9">>, attachment |-> Some(<<T_shot_png>>),
     summary |-> Some(T_Fix_login),
     labels |-> <<>>, issuetype |-> Some("Task"), customfield |-> None, nulls |-> {}]

\* the tickets get_issue may return (their key is set by the fetch)
TicketShapes ==
    { GoodTicket,
      \* a MIT under every identification method
      [GoodTicket EXCEPT !.labels = <<"MIT">>, !.issuetype = Some("MIT"),
                         !.customfield = Some(TRUE), !.summary = Some(T_MIT_login),
                         !.status = Some("In Progress")],
      \* cancelled, no comment at all, no changelog
      [GoodTicket EXCEPT !.status = Some("Cancelled"), !.comment = Some(<<>>),
                         !.changelog = None],
      \* cancelled with an approval comment
      [GoodTicket EXCEPT !.status = Some("Cancelled")],
      \* a cancelled MIT whose only comment has no timestamp and no approval
      [GoodTicket EXCEPT !.status = Some("Cancelled"), !.labels = <<"MIT">>,
                         !.summary = None,
                         !.comment = Some(<<[body |-> Some(T_please_cancel),
                                             created |-> None, author |-> "U1"]>>)],
      \* Done straight from To Do
      [GoodTicket EXCEPT !.changelog = Some(<< <<StatusItem("To Do", "Done")>> >>)],
      \* no status field
      [GoodTicket EXCEPT !.status = None],
      \* a comment without a created timestamp
      [GoodTicket EXCEPT !.comment = Some(<<Comment(T_Approved_by_manager, None)>>)],
      \* no summary field
      [GoodTicket EXCEPT !.summary = None],
      \* a summary field that is null
      [GoodTicket EXCEPT !.summary = None, !.nulls = {"summary"}] }

\* settings['mit_identification'] of the criteria configuration
MitConfigs ==
    { [method |-> m, label_name |-> "MIT", issue_type_name |-> "MIT", naming_pattern |-> p] :
        m \in {"label", "custom_field", "issue_type", "naming_pattern", "none"},
        p \in {T_MIT} }
    \cup
    { [method |-> "naming_pattern", label_name |-> "MIT", issue_type_name |-> "MIT",
       naming_pattern |-> T_mit] }

Settings ==
    [zero_tolerance_stops_evaluation : BOOLEAN, mit_identification : MitConfigs]

\* the keys submitted to generate_audit_report
KeyOf(n) == <<"T", n>>

\* the placeholder appended when get_issue raised (lines 187-191)
FetchErrorTicket(key) ==
    [key |-> key, fetch_error |-> Some("error"), changelog |-> None,
     status |-> None, comment |-> None,
     assignee |-> None, reporter |-> None, description |-> None,
     issuelinks |-> <<>>, attachment |-> None, summary |-> None,
     labels |-> <<>>, issuetype |-> None, customfield |-> None, nulls |-> {}]

-----------------------------------------------------------------------------
(* generate_audit_report: fetch every ticket, evaluate every ticket *)

IdleCheck  == issues = <<>> /\ check_result = None /\ mode = "idle"
IdleCalc   == calc_args = None /\ calc_out = None
IdleStrict == strict_issue = None /\ strict_checks = None
IdleSvc    == /\ _cache = <<>> /\ live = <<>> /\ last_call = None
IdleEtl    == /\ jira_updated = <<>> /\ db_synced = <<>> /\ etl_runs = <<>>
              /\ etl_pc = "idle"
IdleSys    == /\ now = 0 /\ IdleSvc /\ IdleEtl
IdleOrch   == /\ settings = None /\ ticket_keys = <<>> /\ tickets_data = <<>>
              /\ audit_results = <<>> /\ pc = "idle" /\ report = None

Init ==
    /\ settings \in {Some(c) : c \in Settings}
    /\ ticket_keys \in {[i \in 1..n |-> KeyOf(i)] : n \in 0..MaxTickets}
    /\ tickets_data = <<>>
    /\ audit_results = <<>>
    /\ pc = "fetch"
    /\ report = None
    /\ IdleCheck /\ IdleCalc /\ IdleStrict /\ IdleSys

\* one iteration of the loop of _fetch_tickets_data: get_issue returns a ticket
FetchTicket ==
    /\ pc = "fetch"
    /\ Len(tickets_data) < Len(ticket_keys)
    /\ \E shape \in TicketShapes :
          tickets_data' = Append(tickets_data,
              [shape EXCEPT !.key = ticket_keys[Len(tickets_data) + 1]])
    /\ UNCHANGED <<settings, ticket_keys, audit_results, pc, report>>
    /\ UNCHANGED <<checkVars, calcVars, strictVars, sysVars>>

\* one iteration of the loop of _fetch_tickets_data: get_issue raises
FetchFails ==
    /\ pc = "fetch"
    /\ Len(tickets_data) < Len(ticket_keys)
    /\ tickets_data' = Append(tickets_data,
                              FetchErrorTicket(ticket_keys[Len(tickets_data) + 1]))
    /\ UNCHANGED <<settings, ticket_keys, audit_results, pc, report>>
    /\ UNCHANGED <<checkVars, calcVars, strictVars, sysVars>>

\* _fetch_tickets_data returns
FetchDone ==
    /\ pc = "fetch"
    /\ Len(tickets_data) = Len(ticket_keys)
    /\ pc' = "evaluate"
    /\ UNCHANGED <<settings, ticket_keys, tickets_data, audit_results, report>>
    /\ UNCHANGED <<checkVars, calcVars, strictVars, sysVars>>

\* one iteration of the loop of lines 142-144; an exception raised by a check
\* is caught nowhere and leaves generate_audit_report
EvaluateTicket ==
    /\ pc = "evaluate"
    /\ Len(audit_results) < Len(tickets_data)
    /\ \E result \in {_evaluate_ticket(tickets_data[Len(audit_results) + 1], Val(settings))} :
          /\ pc' = IF result.raised THEN "raised" ELSE pc
          /\ audit_results' = Append(audit_results, result)
    /\ UNCHANGED <<settings, ticket_keys, tickets_data, report>>
    /\ UNCHANGED <<checkVars, calcVars, strictVars, sysVars>>

\* the loop is over: the summary and the recommendations are generated from
\* audit_results (lines 146-150), the latter under the zero_tolerance flags of the criteria configuration
ReportDone ==
    /\ pc = "evaluate"
    /\ Len(audit_results) = Len(tickets_data)
    /\ pc' = "done"
    /\ \E zt \in ZeroToleranceConfigs :
          report' = Some([zero_tolerance_criteria |-> zt,
                          summary |-> _generate_executive_summary(audit_results),
                          recommendations |-> _generate_recommendations(audit_results, zt)])
    /\ UNCHANGED <<settings, ticket_keys, tickets_data, audit_results>>
    /\ UNCHANGED <<checkVars, calcVars, strictVars, sysVars>>

Next == FetchTicket \/ FetchFails \/ FetchDone \/ EvaluateTicket \/ ReportDone

Spec == Init /\ [][Next]_vars

-----------------------------------------------------------------------------
(* _calculate_overall_status applied to any criteria results *)

\* the largest number of criteria in a given criteria_results
MaxCriteria == 3

\* the verdicts of the data model: Pass, Fail, NotApplicable, Unknown,
\* NeedsManualReview as the result dictionaries spell them
Statuses == {"Pass", "Fail", "NA", "Unknown", "NeedsManualReview"}

InitCalc ==
    /\ \E n \in 0..MaxCriteria :
       \E st \in [1..n -> Statuses] :
       \E zt \in {<<>>, <<[criterion |-> "task_cancellation",
                          reason |-> [text |-> "Cancelled w/o approval", items |-> <<>>]]>>} :
          calc_args = Some([criteria_results |->
                               [i \in 1..n |-> [check_id |-> all_checks[i],
                                                result |-> Result(st[i], "", <<>>)]],
                            zero_tolerance_violations |-> zt])
    /\ calc_out = None
    /\ IdleOrch /\ IdleCheck /\ IdleStrict /\ IdleSys

Calculate ==
    /\ IsSome(calc_args) /\ IsNone(calc_out)
    /\ calc_out' = Some(_calculate_overall_status(Val(calc_args).criteria_results,
                                                  Val(calc_args).zero_tolerance_violations))
    /\ UNCHANGED <<calc_args, orchVars, checkVars, strictVars, sysVars>>

SpecCalc == (Init \/ InitCalc) /\ [][Next \/ Calculate]_vars

-----------------------------------------------------------------------------
(* _is_mit_ticket applied to any ticket under any configuration *)

T_mit_fix == <<"m","i","t"," ","f","i","x">>

\* tickets varied in the four fields the classifier reads, each of them
\* missing, null or set
ClassifierTickets ==
    {[GoodTicket EXCEPT !.labels = IF "labels" \in n THEN <<>> ELSE l,
                        !.summary = IF "summary" \in n THEN None ELSE s,
                        !.issuetype = IF "issuetype" \in n THEN None ELSE t,
                        !.customfield = IF "customfield" \in n THEN None ELSE c,
                        !.nulls = n] :
        l \in {<<>>, <<"MIT">>, <<"bug">>},
        s \in {None, Some(T_Fix_login), Some(T_MIT_login), Some(T_mit_fix)},
        t \in {None, Some("MIT"), Some("Task")},
        c \in {None, Some(TRUE), Some(FALSE)},
        n \in SUBSET {"labels", "summary", "issuetype", "customfield"}}

InitClassify ==
    /\ calc_args \in {Some([ticket |-> t, mit_config |-> c]) :
                        t \in ClassifierTickets, c \in MitConfigs}
    /\ calc_out = None
    /\ IdleOrch /\ IdleCheck /\ IdleStrict /\ IdleSys

\* self._is_mit_ticket(ticket): its value, or the exception leaving it
Classify ==
    /\ IsSome(calc_args) /\ IsNone(calc_out)
    /\ LET a == Val(calc_args) IN
       calc_out' = Some(IF _is_mit_ticket_raises(a.ticket, a.mit_config)
                        THEN [raised |-> TRUE, value |-> None]
                        ELSE [raised |-> FALSE,
                              value |-> Some(_is_mit_ticket(a.ticket, a.mit_config))])
    /\ UNCHANGED <<calc_args, orchVars, checkVars, strictVars, sysVars>>

SpecClassify == InitClassify /\ [][Classify]_vars

-----------------------------------------------------------------------------
(* One check of checks.py applied to an issue list.  The list is built one  *)
(* issue, one history, one changelog item, one comment at a time and then   *)
(* handed to evaluate().                                                    *)

\* the largest number of issues in the list
MaxIssues == 2
\* the largest number of changelog items in the whole list
MaxItems == 4
\* the largest number of comments in the whole list
MaxComments == 2

T_Approved == <<"A","p","p","r","o","v","e","d">>
T_CONFIRMED == <<"C","O","N","F","I","R","M","E","D">>
T_Cancelled == <<"C","a","n","c","e","l","l","e","d">>

\* the changelog items the list is built from
ItemsFor(m) ==
    CASE m = "status_hygiene" ->
            { StatusItem("To Do", "In Progress"), StatusItem("In Progress", "Done"),
              StatusItem("To Do", "Done"),
              \* a from-state VALID_TRANSITIONS does not know
              StatusItem("Triage", "Done"),
              \* not a status change
              [field |-> "assignee", fromString |-> "Cancelled", toString |-> "Done"] }
      [] m = "lifecycle_adherence" ->
            { StatusItem("To Do", "In Progress"), StatusItem("In Progress", "Done"),
              StatusItem("To Do", "Done"),
              \* not a status change
              [field |-> "resolution", fromString |-> "To Do", toString |-> "In Progress"] }
      [] OTHER -> {}

\* the current statuses of the issues the list is built from
StatusesFor(m) ==
    CASE m = "status_hygiene" -> {"Done"}
      [] m = "lifecycle_adherence" -> {"Done", "In Progress"}
      [] m = "task_cancellation" -> {"Cancelled", "Done"}
      [] OTHER -> {}

\* the comment bodies the list is built from
Bodies == {T_Approved_by_manager, T_CONFIRMED, T_please_cancel}

\* the audited subject, another person, and the audited period: the days of
\* one week, Monday = 0
SUBJECT == "U1"
OTHER_PERSON == "U2"
PERIOD == 0..6

\* the comments the list is built from
CommentsFor(m) ==
    CASE m = "task_cancellation" -> {Comment(body, Some(WEDNESDAY)) : body \in Bodies}
      [] m = "weekly_updates" ->
            \* Wednesday, Thursday and Friday of the period and the Wednesday
            \* after it, written by the subject or by somebody else
            {[Comment(T_please_cancel, Some(day)) EXCEPT !.author = a] :
                day \in {WEDNESDAY, 3, FRIDAY, WEDNESDAY + 7}, a \in {SUBJECT, OTHER_PERSON}}
      [] OTHER -> {}

\* the texts a changelog entry of a cancelled ticket may carry
Notes == {T_Approved, T_Cancelled}

TotalItems(iss) == Len(Flatten([n \in 1..Len(iss) |-> ChangelogItems(iss[n])]))
TotalComments(iss) == Len(Flatten([n \in 1..Len(iss) |-> Comments(iss[n])]))

InitCheck(m) ==
    /\ issues = <<>> /\ check_result = None /\ mode = m
    /\ IdleOrch /\ IdleCalc /\ IdleStrict /\ IdleSys

\* the caller appends an issue; its comment field is missing or empty
AddIssue ==
    /\ IsNone(check_result)
    /\ Len(issues) < MaxIssues
    /\ \E st \in StatusesFor(mode) :
       \E comment \in IF mode = "task_cancellation" THEN {None, Some(<<>>)} ELSE {None} :
          issues' = Append(issues, Issue(KeyOf(Len(issues) + 1), Some(st), None, comment))
    /\ UNCHANGED <<check_result, mode, orchVars, calcVars, strictVars, sysVars>>

\* the last issue's changelog gets a new, empty history
AddHistory ==
    /\ IsNone(check_result)
    /\ Len(issues) > 0
    /\ TotalItems(issues) < MaxItems
    /\ LET last == issues[Len(issues)]
           histories == Get(last.changelog, <<>>)
       IN  /\ Len(histories) > 0 => Len(histories[Len(histories)]) > 0
           /\ issues' = [issues EXCEPT ![Len(issues)].changelog =
                                            Some(Append(histories, <<>>))]
    /\ UNCHANGED <<check_result, mode, orchVars, calcVars, strictVars, sysVars>>

\* the last history of the last issue gets a new item
AddItem ==
    /\ IsNone(check_result)
    /\ Len(issues) > 0
    /\ TotalItems(issues) < MaxItems
    /\ LET last == issues[Len(issues)]
           histories == Get(last.changelog, <<>>)
       IN  /\ Len(histories) > 0
           /\ \E item \in ItemsFor(mode) :
                 issues' = [issues EXCEPT ![Len(issues)].changelog =
                     Some([histories EXCEPT ![Len(histories)] = Append(@, item)])]
    /\ UNCHANGED <<check_result, mode, orchVars, calcVars, strictVars, sysVars>>

\* the last issue gets a new comment
AddComment ==
    /\ IsNone(check_result)
    /\ Len(issues) > 0
    /\ TotalComments(issues) < MaxComments
    /\ \E c \in CommentsFor(mode) :
          issues' = [issues EXCEPT ![Len(issues)].comment = Some(Append(Get(@, <<>>), c))]
    /\ UNCHANGED <<check_result, mode, orchVars, calcVars, strictVars, sysVars>>

\* the last issue, so far without changelog, gets a changelog of one entry
\* that carries a text
AddChangelogNote ==
    /\ IsNone(check_result)
    /\ Len(issues) > 0
    /\ IsNone(issues[Len(issues)].changelog)
    /\ \E note \in Notes :
          issues' = [issues EXCEPT ![Len(issues)].changelog =
              Some(<< <<[field |-> "Approval", fromString |-> <<>>, toString |-> note]>> >>)]
    /\ UNCHANGED <<check_result, mode, orchVars, calcVars, strictVars, sysVars>>

\* StatusHygieneCheck().evaluate(issues, employee)
EvaluateHygiene ==
    /\ IsNone(check_result)
    /\ check_result' = Some(StatusHygieneCheck(issues))
    /\ UNCHANGED <<issues, mode, orchVars, calcVars, strictVars, sysVars>>

\* LifecycleCheck().evaluate(issues, employee)
EvaluateLifecycle ==
    /\ IsNone(check_result)
    /\ check_result' = Some(LifecycleCheck(issues))
    /\ UNCHANGED <<issues, mode, orchVars, calcVars, strictVars, sysVars>>

\* CancellationCheck().evaluate(issues, employee)
EvaluateCancellation ==
    /\ IsNone(check_result)
    /\ check_result' = Some(CancellationCheck(issues))
    /\ UNCHANGED <<issues, mode, orchVars, calcVars, strictVars, sysVars>>

SpecHygiene ==
    InitCheck("status_hygiene")
    /\ [][AddIssue \/ AddHistory \/ AddItem \/ EvaluateHygiene]_vars

SpecLifecycle ==
    InitCheck("lifecycle_adherence")
    /\ [][AddIssue \/ AddHistory \/ AddItem \/ EvaluateLifecycle]_vars

SpecCancellation ==
    InitCheck("task_cancellation")
    /\ [][AddIssue \/ AddComment \/ AddChangelogNote \/ EvaluateCancellation]_vars

-----------------------------------------------------------------------------
(* Any automatable check of checks.py applied to a list of whole tickets *)

AutomatableChecks ==
    {"status_hygiene", "task_cancellation", "weekly_updates", "roles_and_access",
     "documentation_traceability", "lifecycle_adherence",
     "mit_planning", "mit_creation", "mit_completion", "non_mit_tracking"}

\* the heuristic checks
HeuristicChecks == {manual_checks[i] : i \in 1..Len(manual_checks)}

\* len(histories) > 10, the one test HistoryIntegrityCheck makes
BURST_HISTORIES == 10

\* a changelog of n histories, the status going back and forth
Burst(n) ==
    [h \in 1..n |-> IF h % 2 = 1 THEN <<StatusItem("To Do", "In Progress")>>
                                 ELSE <<StatusItem("In Progress", "To Do")>>]

\* the tickets the list is built from, varied in what the check reads
ShapesFor(m) ==
    CASE m = "roles_and_access" ->
            {[GoodTicket EXCEPT !.assignee = a, !.reporter = r] :
                a \in {None, Some(SUBJECT), Some(OTHER_PERSON)},
                r \in {None, Some(SUBJECT), Some(OTHER_PERSON)}}
      [] m = "documentation_traceability" ->
            {[GoodTicket EXCEPT !.description = d, !.issuelinks = l, !.attachment = a] :
                d \in {None, Some(Filler(DOC_MIN_DESC)), Some(Filler(DOC_MIN_DESC + 1))},
                l \in {<<>>, <<"T-9">>},
                a \in {None, Some(<<>>), Some(<<T_shot_png>>)}}
      [] m = "weekly_updates" -> {[GoodTicket EXCEPT !.comment = None]}
      [] m = "employee_week" ->
            {[GoodTicket EXCEPT !.status = st, !.comment = Some(c)] :
                st \in {None, Some("Done"), Some("Cancelled")},
                c \in {<<Comment(T_please_cancel, Some(WEDNESDAY))>>,
                       <<Comment(T_please_cancel, Some(WEDNESDAY)),
                         Comment(T_please_cancel, Some(FRIDAY))>>}}
      [] m = "history_integrity" ->
            {[GoodTicket EXCEPT !.changelog = c] :
                c \in {None, Some(Burst(1)), Some(Burst(BURST_HISTORIES)),
                       Some(Burst(BURST_HISTORIES + 1))}}
      [] m \in {"mit_planning", "mit_creation", "mit_completion", "non_mit_tracking"} ->
            {[GoodTicket EXCEPT !.labels = <<"MIT">>, !.status = Some(st)] :
                st \in {"In Progress", "Done"}}
      [] OTHER -> {GoodTicket, [GoodTicket EXCEPT !.status = Some("Cancelled")]}

InitChecks ==
    \E m \in AutomatableChecks \cup HeuristicChecks \cup {"employee_week"} : InitCheck(m)

\* the caller appends a ticket
AddShaped ==
    /\ IsNone(check_result)
    /\ mode \in AutomatableChecks \cup HeuristicChecks \cup {"employee_week"}
    /\ Len(issues) < MaxIssues
    /\ \E shape \in ShapesFor(mode) :
          issues' = Append(issues, [shape EXCEPT !.key = KeyOf(Len(issues) + 1)])
    /\ UNCHANGED <<check_result, mode, orchVars, calcVars, strictVars, sysVars>>

\* check.evaluate(issues, employee) of the check the list was built for
EvaluateCheck ==
    /\ IsNone(check_result)
    /\ mode \in AutomatableChecks \cup HeuristicChecks
    /\ check_result' = Some(Evaluate(mode, issues))
    /\ UNCHANGED <<issues, mode, orchVars, calcVars, strictVars, sysVars>>

\* scripts/batch_extract_employees.py, check_updates_compliance(issues,
\* user_email, start_date, end_date): the (status, notes) pair it returns
check_updates_compliance(iss, user_email, period) ==
    LET comment_data == Flatten([n \in 1..Len(iss) |-> Comments(iss[n])])
        \* the comments that reach the weekday test of lines 222-227
        counted == {n \in 1..Len(comment_data) :
                       /\ comment_data[n].author = user_email
                       /\ IsSome(comment_data[n].created)
                       /\ Val(comment_data[n].created) \in period}
        wed_updates == Cardinality({n \in counted :
                           Weekday(Val(comment_data[n].created)) = WEDNESDAY})
        fri_updates == Cardinality({n \in counted :
                           Weekday(Val(comment_data[n].created)) = FRIDAY})
    IN  IF wed_updates > 0 /\ fri_updates > 0
        THEN <<"Yes", "Found updates on Wed and Fri">>
        ELSE IF wed_updates > 0 \/ fri_updates > 0
        THEN <<"Partial", IF wed_updates > 0 THEN "Missing updates on Fri"
                                             ELSE "Missing updates on Wed">>
        ELSE <<"No", "No Wed/Fri updates found on assigned tickets">>

\* the batch extraction applies its own update check to the list
CheckUpdatesCompliance ==
    /\ IsNone(check_result)
    /\ mode = "weekly_updates"
    /\ check_result' = Some(check_updates_compliance(issues, SUBJECT, PERIOD))
    /\ mode' = "check_updates_compliance"
    /\ UNCHANGED <<issues, orchVars, calcVars, strictVars, sysVars>>

\* ComplianceReportBuilder.checks (reports/compliance_builder.py), in
\* dictionary order
WeekChecks ==
    <<"status_hygiene", "cancellation", "update_frequency", "role_ownership",
      "documentation", "lifecycle", "zero_tolerance">>

\* check.evaluate(issues, employee) of the check registered under check_name
WeekEvaluate(check_name, iss) ==
    CASE check_name = "status_hygiene"   -> StatusHygieneCheck(iss)
      [] check_name = "cancellation"     -> CancellationCheck(iss)
      [] check_name = "update_frequency" -> UpdateFrequencyCheck(iss)
      [] check_name = "role_ownership"   -> RoleOwnershipCheck(iss)
      [] check_name = "documentation"    -> DocumentationCheck(iss)
      [] check_name = "lifecycle"        -> LifecycleCheck(iss)
      \* ZeroToleranceCheck
      [] check_name = "zero_tolerance"   ->
            Result("NA", "Handled by individual checks", <<>>)

\* _map_result_to_legacy_format(result, check_name): the string, as its fixed
\* text and the reason formatted into it, if any
_map_result_to_legacy_format(result, check_name) ==
    IF result.status = "Pass"
    THEN IF check_name \in {"cancellation", "zero_tolerance"}
         THEN [text |-> <<"N","o">>, reason |-> None]
         ELSE [text |-> <<"Y","e","s">>, reason |-> None]
    ELSE IF result.status = "Fail"
    THEN IF check_name = "cancellation"
         THEN [text |-> <<"Y","e","s"," ","-"," ">>, reason |-> Some(result.reason)]
         ELSE IF check_name = "zero_tolerance"
         THEN [text |-> <<"Y","e","s">>, reason |-> None]
         ELSE [text |-> <<"N","o"," ","-"," ">>, reason |-> Some(result.reason)]
    ELSE [text |-> <<"N","A">>, reason |-> None]

\* _calculate_overall_compliance(results); results[n] belongs to WeekChecks[n]
_calculate_overall_compliance(results) ==
    IF \E n \in 1..Len(results) :
          \* result.startswith("No")
          \/ SubSeq(results[n].text, 1, 2) = <<"N","o">>
          \/ /\ WeekChecks[n] = "zero_tolerance"
             /\ results[n] = [text |-> <<"Y","e","s">>, reason |-> None]
          \/ results[n] = [text |-> <<"E","r","r","o","r">>, reason |-> None]
    THEN "Fail" ELSE "Pass"

\* _evaluate_employee_week without the fetch: None for a week without issues,
\* else the row of the report (its results and overall_compliance)
_evaluate_employee_week(iss) ==
    IF Len(iss) = 0 THEN None ELSE
    LET results ==
            [n \in 1..Len(WeekChecks) |->
                The({IF check_result_.status = "RAISE"
                     THEN [text |-> <<"E","r","r","o","r">>, reason |-> None]
                     ELSE _map_result_to_legacy_format(check_result_, WeekChecks[n]) :
                     check_result_ \in {WeekEvaluate(WeekChecks[n], iss)}})]
    IN  The({Some([results |-> r, overall_compliance |-> _calculate_overall_compliance(r)]) :
             r \in {results}})

\* the weekly report evaluates the subject's issues of one week
EvaluateWeek ==
    /\ IsNone(check_result)
    /\ mode = "employee_week"
    /\ check_result' = Some(_evaluate_employee_week(issues))
    /\ UNCHANGED <<issues, mode, orchVars, calcVars, strictVars, sysVars>>

SpecChecks ==
    InitChecks
    /\ [][AddShaped \/ AddComment \/ EvaluateCheck \/ CheckUpdatesCompliance
           \/ EvaluateWeek]_vars

-----------------------------------------------------------------------------
(* The checks evaluated again and again on one ticket set, Status Hygiene   *)
(* among them.  tickets_data is the set as fetched, issues the list handed  *)
(* to evaluate(); calc_args keeps the first Status Hygiene result and the   *)
(* number of its evaluations, calc_out the latest.                          *)

MaxEvaluations == 3

RepeatShapes ==
    { GoodTicket,
      [GoodTicket EXCEPT !.changelog = Some(<< <<StatusItem("To Do", "Done")>> >>)],
      [GoodTicket EXCEPT !.changelog = Some(<< <<StatusItem("Done", "To Do"),
                                                  StatusItem("To Do", "Testing")>>,
                                               <<StatusItem("To Do", "In Progress")>> >>)],
      [GoodTicket EXCEPT !.status = Some("Cancelled"), !.changelog = None] }

InitRepeat ==
    /\ \E n \in 0..MaxIssues : \E shapes \in [1..n -> RepeatShapes] :
          issues = [i \in 1..n |-> [shapes[i] EXCEPT !.key = KeyOf(i)]]
    /\ tickets_data = issues
    /\ check_result = None /\ mode = "idle"
    /\ settings = None /\ ticket_keys = <<>> /\ audit_results = <<>>
    /\ pc = "idle" /\ report = None
    /\ IdleCalc /\ IdleStrict /\ IdleSys

\* StatusHygieneCheck().evaluate(issues, employee), once more
EvaluateHygieneAgain ==
    /\ mode \in {"idle"} \cup AutomatableChecks \cup HeuristicChecks
    /\ IsSome(calc_args) => Val(calc_args).evaluations < MaxEvaluations
    /\ \E result \in {StatusHygieneCheck(issues)} :
          /\ check_result' = Some(result)
          /\ calc_out' = Some(result)
          /\ calc_args' = IF IsNone(calc_args)
                          THEN Some([first |-> result, evaluations |-> 1])
                          ELSE Some([Val(calc_args) EXCEPT !.evaluations = @ + 1])
    /\ mode' = "status_hygiene"
    /\ UNCHANGED <<issues, orchVars, strictVars, sysVars>>

\* another check is evaluated on the same list in between
EvaluateOther ==
    /\ mode \in {"idle"} \cup AutomatableChecks \cup HeuristicChecks
    /\ \E m \in (AutomatableChecks \cup HeuristicChecks) \ {"status_hygiene", mode} :
          /\ check_result' = Some(Evaluate(m, issues))
          /\ mode' = m
    /\ UNCHANGED <<issues, orchVars, calcVars, strictVars, sysVars>>

SpecRepeat == InitRepeat /\ [][EvaluateHygieneAgain \/ EvaluateOther]_vars

-----------------------------------------------------------------------------
(* Status Hygiene and Lifecycle applied to one ticket whose status history  *)
(* is a chain: the ticket starts in To Do or Backlog, every history holds   *)
(* one status change from the status the ticket is in, legal or not, and    *)
(* the current status is the last to-state.                                 *)

MaxChain == 4

InitChain ==
    /\ \E start \in {"To Do", "Backlog"} :
          issues = <<Issue(KeyOf(1), Some(start), None, None)>>
    /\ check_result = None /\ mode = "chain"
    /\ IdleOrch /\ IdleCalc /\ IdleStrict /\ IdleSys

\* the ticket moves to another status
ChangeStatus ==
    /\ IsNone(check_result)
    /\ Len(Get(issues[1].changelog, <<>>)) < MaxChain
    /\ \E to \in (DOMAIN VALID_TRANSITIONS) \ {Val(issues[1].status)} :
          issues' = [issues EXCEPT
              ![1].changelog = Some(Append(Get(@, <<>>),
                                           <<StatusItem(Val(issues[1].status), to)>>)),
              ![1].status = Some(to)]
    /\ UNCHANGED <<check_result, mode, orchVars, calcVars, strictVars, sysVars>>

\* both checks are evaluated on the ticket
EvaluateChain ==
    /\ IsNone(check_result)
    /\ mode = "chain"
    /\ check_result' = Some([status_hygiene |-> StatusHygieneCheck(issues),
                             lifecycle_adherence |-> LifecycleCheck(issues)])
    /\ UNCHANGED <<issues, mode, orchVars, calcVars, strictVars, sysVars>>

SpecChain == InitChain /\ [][ChangeStatus \/ EvaluateChain]_vars

-----------------------------------------------------------------------------
(* reports/compliance_data_service.py: ComplianceDataService.               *)
(*   _cache     cache_key -> (cached_data, cached_time)                     *)
(*   live       for each active employee, the issues Jira returns for the   *)
(*              week (team filtering is not implemented, lines 141-143, so  *)
(*              the same employees are evaluated for every team_id)         *)
(*   now        time.time()                                                 *)
(*   last_call  the last call made to the service and what it did           *)

CACHE_TTL == 300

MaxPeriods == 2
MaxEmployees == 2

\* the moments at which something happens: around the multiples of the TTL
Moments ==
    {t \in {p * CACHE_TTL + d : p \in 0..MaxPeriods, d \in {-1, 0, 1}} : t >= 0}

\* str(team_id) of the team_id arguments
TeamIds == {"None", "1"}

\* f"team_{team_id}_week_{week_offset}"
cache_key(team_id, week_offset) == <<"team_", team_id, "_week_", week_offset>>

CacheKeys == {cache_key(team_id, 0) : team_id \in TeamIds}

\* what _get_employee_issues returns for an employee: nothing, or one issue
EmployeeWeeks == {<<>>, <<[GoodTicket EXCEPT !.key = KeyOf(1)]>>}

\* _evaluate_employee_week of the service.  results[check_name] is the
\* dictionary returned by check.evaluate, or the string "Error" when it
\* raised.  _calculate_overall_compliance and _generate_auditor_notes call
\* result.startswith on each result: on a dictionary that raises
\* AttributeError.  The first loop returns "Fail" at a first result "Error";
\* the second loop reads every result.
DataService_evaluate_employee_week(iss) ==
    IF Len(iss) = 0 THEN [raised |-> FALSE, record |-> None] ELSE
    LET results == [n \in 1..Len(WeekChecks) |-> WeekEvaluate(WeekChecks[n], iss)]
        IsDict(n) == ~Raised(results[n])
    IN  IF IsDict(1) \/ \E n \in 1..Len(WeekChecks) : IsDict(n)
        THEN [raised |-> TRUE, record |-> None]
        ELSE [raised |-> FALSE, record |-> Some([overall_compliance |-> "Fail"])]

\* lines 84-100: the records of the employees that had activity
GenerateLiveData(employees) ==
    LET records == [e \in 1..Len(employees) |->
                        DataService_evaluate_employee_week(employees[e])]
        RECURSIVE Collect(_)
        Collect(e) ==
            IF e > Len(employees) THEN <<>>
            ELSE (IF IsSome(records[e].record) THEN <<Val(records[e].record)>> ELSE <<>>)
                 \o Collect(e + 1)
    IN  IF \E e \in 1..Len(employees) : records[e].raised
        THEN [raised |-> TRUE, compliance_data |-> <<>>]
        ELSE [raised |-> FALSE, compliance_data |-> Collect(1)]

\* line 81
IsFreshEntry(cached_time, at) == at - cached_time < CACHE_TTL

InitService ==
    /\ now = 0
    /\ _cache = <<>>
    /\ live \in [1..MaxEmployees -> EmployeeWeeks]
    /\ last_call = None
    /\ IdleOrch /\ IdleCheck /\ IdleCalc /\ IdleStrict /\ IdleEtl

\* get_live_data(team_id, week_offset); generating the data takes until done
GetLiveData ==
    /\ \E team_id \in TeamIds :
         LET key == cache_key(team_id, 0)
             call == [op |-> "get_live_data", key |-> key, at |-> now, before |-> _cache]
         IN  IF key \in DOMAIN _cache /\ IsFreshEntry(_cache[key].cached_time, now)
             THEN /\ last_call' = Some(call @@
                                       [generated |-> FALSE, outcome |-> "returned",
                                        data |-> _cache[key].cached_data, done |-> now])
                  /\ UNCHANGED <<now, _cache>>
             ELSE \E done \in {t \in Moments : t >= now} :
                    \E r \in {GenerateLiveData(live)} :
                      /\ now' = done
                      /\ IF r.raised
                         THEN /\ UNCHANGED _cache
                              /\ last_call' = Some(call @@
                                     [generated |-> TRUE, outcome |-> "AttributeError",
                                      data |-> <<>>, done |-> done])
                         ELSE /\ _cache' = [k \in DOMAIN _cache \cup {key} |->
                                               IF k = key
                                               THEN [cached_data |-> r.compliance_data,
                                                     cached_time |-> done]
                                               ELSE _cache[k]]
                              /\ last_call' = Some(call @@
                                     [generated |-> TRUE, outcome |-> "returned",
                                      data |-> r.compliance_data, done |-> done])
    /\ UNCHANGED <<live, etlVars, orchVars, checkVars, calcVars, strictVars>>

\* clear_cache()
ClearCache ==
    /\ _cache' = <<>>
    /\ last_call' = Some([op |-> "clear_cache", key |-> cache_key("None", 0),
                          at |-> now, before |-> _cache, generated |-> FALSE,
                          outcome |-> "returned", data |-> <<>>, done |-> now])
    /\ UNCHANGED <<now, live, etlVars, orchVars, checkVars, calcVars, strictVars>>

\* time passes between calls
TimePasses ==
    /\ \E t \in Moments : t > now /\ now' = t
    /\ UNCHANGED <<_cache, live, last_call, etlVars, orchVars, checkVars, calcVars, strictVars>>

\* an employee's issues of the week change in Jira
IssuesChange ==
    /\ \E e \in 1..MaxEmployees : \E w \in EmployeeWeeks \ {live[e]} :
          live' = [live EXCEPT ![e] = w]
    /\ UNCHANGED <<now, _cache, last_call, etlVars, orchVars, checkVars, calcVars, strictVars>>

SpecService ==
    InitService /\ [][GetLiveData \/ ClearCache \/ TimePasses \/ IssuesChange]_vars

-----------------------------------------------------------------------------
(* etl_pipeline.py: ETLPipeline._run_sync, one run at a time, while issues  *)
(* are updated in Jira.                                                     *)
(*   jira_updated  for each issue, the time of its latest update in Jira    *)
(*   db_synced     for each issue, the update time of the version stored in *)
(*                 the database, None before it is first stored             *)
(*   etl_runs      the rows of table etl_runs, oldest first                 *)
(*   etl_pc        position of the run in progress                          *)
(*   now           datetime.utcnow(), in seconds                            *)

\* since.strftime('%Y-%m-%d %H:%M') keeps the minute
MINUTE == 60

MaxMinutes == 2
MaxRuns == 2
MaxEtlIssues == 2

\* the moments at which something happens: at and just after each minute
EtlMoments == {m * MINUTE + d : m \in 0..MaxMinutes, d \in {0, 1}}

\* the time that the JQL text "{since_str}" denotes
since_str(since) == since - (since % MINUTE)

\* lines 112-118: last_sync_timestamp of the completed run with the latest
\* completed_at, None without one
LastSync(runs) ==
    LET completed == {r \in 1..Len(runs) : runs[r].status = "completed"}
    IN  IF completed = {} THEN None
        ELSE runs[CHOOSE r \in completed :
                    \A q \in completed :
                        Val(runs[q].completed_at) <= Val(runs[r].completed_at)
                 ].last_sync_timestamp

\* the issues returned by fetch_issues_since, or by the full JQL
FetchedIssues(since) ==
    {i \in 1..Len(jira_updated) :
        IsNone(since) \/ jira_updated[i] >= since_str(Val(since))}

InitEtl ==
    /\ now = 0
    /\ jira_updated = [i \in 1..MaxEtlIssues |-> 0]
    /\ db_synced = [i \in 1..MaxEtlIssues |-> None]
    /\ etl_runs = <<>>
    /\ etl_pc = "idle"
    /\ IdleOrch /\ IdleCheck /\ IdleCalc /\ IdleStrict /\ IdleSvc

\* lines 92-101: the row of the run is inserted
StartRun ==
    /\ etl_pc = "idle"
    /\ Len(etl_runs) < MaxRuns
    /\ \E run_type \in {"full", "incremental"} :
          etl_runs' = Append(etl_runs,
              [run_type |-> run_type, status |-> "running", started_at |-> now,
               completed_at |-> None, last_sync_timestamp |-> None])
    /\ etl_pc' = "syncing"
    /\ UNCHANGED <<now, jira_updated, db_synced, svcVars, orchVars, checkVars, calcVars, strictVars>>

\* lines 108-134: the issues are fetched and stored
SyncIssues ==
    /\ etl_pc = "syncing"
    /\ LET this == etl_runs[Len(etl_runs)]
           last_sync == IF this.run_type = "incremental"
                        THEN LastSync(SubSeq(etl_runs, 1, Len(etl_runs) - 1))
                        ELSE None
       IN  db_synced' = [i \in 1..Len(db_synced) |->
                            IF i \in FetchedIssues(last_sync)
                            THEN Some(jira_updated[i]) ELSE db_synced[i]]
    /\ etl_pc' = "synced"
    /\ UNCHANGED <<now, jira_updated, etl_runs, svcVars, orchVars, checkVars, calcVars, strictVars>>

\* lines 137-145: the run is recorded as completed
CompleteRun ==
    /\ etl_pc = "synced"
    /\ etl_runs' = [etl_runs EXCEPT ![Len(etl_runs)] =
                       [@ EXCEPT !.status = "completed", !.completed_at = Some(now),
                                 !.last_sync_timestamp = Some(now)]]
    /\ etl_pc' = "idle"
    /\ UNCHANGED <<now, jira_updated, db_synced, svcVars, orchVars, checkVars, calcVars, strictVars>>

\* lines 104-105 and 149-160: the connection test fails
FailRun ==
    /\ etl_pc = "syncing"
    /\ etl_runs' = [etl_runs EXCEPT ![Len(etl_runs)] =
                       [@ EXCEPT !.status = "failed", !.completed_at = Some(now)]]
    /\ etl_pc' = "idle"
    /\ UNCHANGED <<now, jira_updated, db_synced, svcVars, orchVars, checkVars, calcVars, strictVars>>

\* an issue is updated in Jira
UpdateIssue ==
    /\ \E i \in 1..Len(jira_updated) :
          /\ jira_updated[i] < now
          /\ jira_updated' = [jira_updated EXCEPT ![i] = now]
    /\ UNCHANGED <<now, db_synced, etl_runs, etl_pc, svcVars, orchVars, checkVars, calcVars, strictVars>>

\* time passes
EtlTimePasses ==
    /\ \E t \in EtlMoments : t > now /\ now' = t
    /\ UNCHANGED <<etlVars, svcVars, orchVars, checkVars, calcVars, strictVars>>

SpecEtl ==
    InitEtl /\ [][StartRun \/ SyncIssues \/ CompleteRun \/ FailRun
                    \/ UpdateIssue \/ EtlTimePasses]_vars

-----------------------------------------------------------------------------
(* scripts/generate_strict_jira_audit.py: the checks and the grade that     *)
(* build_report gives one flat issue record.  A field of the record is      *)
(* missing, null or set.                                                    *)

\* the largest number of texts in the changelog and the comments together
MaxEntries == 2

T_None == <<"N","o","n","e">>
T_cancelled == <<"c","a","n","c","e","l","l","e","d">>
T_Done == <<"D","o","n","e">>
T_Manager == <<"M","a","n","a","g","e","r">>

Absent == None
Null == Some(None)
ListOf(l) == Some(Some(l))

RECURSIVE ReprItems(_, _)
\* the items of repr(list) from the n-th on, each quoted, joined by ", "
ReprItems(l, n) ==
    IF n > Len(l) THEN <<>>
    ELSE (IF n > 1 THEN <<",", " ">> ELSE <<>>) \o <<"'">> \o l[n] \o <<"'">>
         \o ReprItems(l, n + 1)

\* f"{v}" of the value issue.get(field): None for a missing or null field
Format(f) ==
    IF IsNone(f) \/ IsNone(Val(f)) THEN T_None
    ELSE <<"[">> \o ReprItems(Val(Val(f)), 1) \o <<"]">>

\* CheckResult, without the criterion name and the evidence snippets, which
\* no decision reads
CheckResult(id, result, severity, reason) ==
    [criterion_id |-> id, result |-> result, severity |-> severity, reason |-> reason]

\* the list in a field, empty for a missing or null field
Entries(f) == IF IsNone(f) \/ IsNone(Val(f)) THEN <<>> ELSE Val(Val(f))

\* the identifiers of MANUAL, in dictionary order
MANUAL == <<"M1", "M2", "M3", "M4", "M5", "M6", "M7", "M8", "M9", "M10", "M11">>

\* lines 170-183
TaskCancellationC7(issue) ==
    LET status == Get(issue.status, <<>>) IN
    IF lower(status) = T_cancelled
    THEN LET approval_text ==
                 The({lower(t) : t \in {Format(issue.changelog) \o <<" ">>
                                        \o Format(issue.comments)}})
         IN  IF Contains(W_manager, approval_text) /\ Contains(W_approv, approval_text)
             THEN CheckResult("C7", "PASS", "NORMAL", "includes manager-approval evidence")
             ELSE IF IsSome(issue.changelog) \/ IsSome(issue.comments)
             THEN CheckResult("C7", "FAIL", "CRITICAL", "lacks manager-approval evidence")
             ELSE CheckResult("C7", "UNKNOWN", "CRITICAL-UNKNOWN",
                              "approval evidence fields are missing")
    ELSE CheckResult("C7", "PASS", "NORMAL", "Issue is not cancelled")

\* lines 185-191: the expected fields that are missing, null or ""
DocumentationC10(issue) ==
    LET expected == <<"created_at", "updated_at", "status_history", "description">>
        missing == SelectSeq(expected,
                       LAMBDA f : \/ issue[f] = Absent \/ issue[f] = Null
                                  \/ issue[f] = Some(Some(<<>>)) /\ f # "status_history")
    IN  IF Len(missing) = 0
        THEN CheckResult("C10", "PASS", "NORMAL", "Expected metadata fields are present")
        ELSE CheckResult("C10", "FAIL", "NORMAL", "Expected metadata fields are missing")

\* _manual_checks(issue): M1..M11 in the order of MANUAL
_manual_checks(issue) ==
    LET comments_present == issue.comments # Absent
        comments == Entries(issue.comments)
        cf == issue.custom_fields
        \* cf.get("Acceptance Criteria") or cf.get("acceptance_criteria")
        ac == IF cf = Absent \/ cf = Null THEN None
              ELSE IF Get(Val(Val(cf)).Acceptance_Criteria, <<>>) # <<>>
              THEN Val(Val(cf)).Acceptance_Criteria
              ELSE Val(Val(cf)).acceptance_criteria
        manual(cid) ==
            CASE cid = "M2" ->
                    IF ~comments_present
                    THEN CheckResult(cid, "UNKNOWN", "NORMAL", "comments field not provided")
                    ELSE IF Len(comments) = 0
                    THEN CheckResult(cid, "FAIL", "NORMAL", "Comments field present but empty")
                    ELSE CheckResult(cid, "PASS", "NORMAL", "At least one comment is present")
              [] cid = "M8" ->
                    IF issue.changelog = Absent /\ issue.status_history = Absent
                    THEN CheckResult(cid, "UNKNOWN", "CRITICAL-UNKNOWN",
                                     "changelog/history not provided")
                    ELSE CheckResult(cid, "NEEDS_MANUAL_REVIEW", "NORMAL",
                                     "Manual judgment required for manipulation detection")
              [] cid = "M9" ->
                    IF IsNone(ac)
                    THEN CheckResult(cid, "UNKNOWN", "NORMAL",
                                     "acceptance criteria field not provided")
                    ELSE CheckResult(cid, "NEEDS_MANUAL_REVIEW", "NORMAL",
                                     "Manual relevance assessment required")
              [] OTHER -> CheckResult(cid, "NEEDS_MANUAL_REVIEW", "NORMAL",
                                      "Manual/content-quality check requires human judgment")
    IN  [n \in 1..Len(MANUAL) |-> manual(MANUAL[n])]

\* _score_issue with only UNKNOWN results counted against the passes
_score_issue_UnknownOnly(checks) ==
    LET count(results) == Cardinality({n \in 1..Len(checks) : checks[n].result \in results})
        crit_fail == \E n \in 1..Len(checks) :
                        checks[n].result = "FAIL" /\ checks[n].severity = "CRITICAL"
        crit_unknown == \E n \in 1..Len(checks) : checks[n].severity = "CRITICAL-UNKNOWN"
    IN  IF crit_fail \/ count({"FAIL"}) >= 2 THEN "BAD"
        ELSE IF crit_unknown THEN "UNKNOWN"
        ELSE IF count({"PASS"}) > count({"UNKNOWN"}) THEN "GOOD"
        ELSE "UNKNOWN"

\* _score_issue(checks)
_score_issue(checks) ==
    LET count(results) == Cardinality({n \in 1..Len(checks) : checks[n].result \in results})
        crit_fail == \E n \in 1..Len(checks) :
                        checks[n].result = "FAIL" /\ checks[n].severity = "CRITICAL"
        crit_unknown == \E n \in 1..Len(checks) : checks[n].severity = "CRITICAL-UNKNOWN"
    IN  IF crit_fail \/ count({"FAIL"}) >= 2 THEN "BAD"
        ELSE IF crit_unknown THEN "UNKNOWN"
        ELSE IF count({"PASS"}) > count({"UNKNOWN", "NEEDS_MANUAL_REVIEW"}) THEN "GOOD"
        ELSE "UNKNOWN"

StrictStatuses == {None, Some(T_Cancelled), Some(T_cancelled), Some(T_Done)}
StrictTexts == {T_Approved_by_manager, T_Approved, T_Manager, T_please_cancel}
StrictFields == {"changelog", "comments"}

InitStrict ==
    /\ strict_issue \in
          {Some([issue_key |-> KeyOf(1), status |-> st,
                 changelog |-> Absent, comments |-> Absent,
                 created_at |-> created, updated_at |-> Some(Some(T_Done)),
                 status_history |-> history, description |-> description,
                 custom_fields |-> cf]) :
             st \in StrictStatuses,
             created \in {Absent, Some(Some(T_Done))},
             history \in {Absent, ListOf(<<>>)},
             description \in {Absent, Null, Some(Some(<<>>)), Some(Some(T_Fix_login))},
             cf \in {Absent} \cup
                    {Some(Some([Acceptance_Criteria |-> a, acceptance_criteria |-> b])) :
                        a \in {None, Some(<<>>), Some(T_Done)}, b \in {None}}}
    /\ strict_checks = None
    /\ IdleOrch /\ IdleCheck /\ IdleCalc /\ IdleSys

\* the input record has the field, null or an empty list
SupplyField ==
    /\ IsNone(strict_checks)
    /\ \E name \in StrictFields : \E value \in {Null, ListOf(<<>>)} :
          /\ Val(strict_issue)[name] = Absent
          /\ strict_issue' = Some([Val(strict_issue) EXCEPT ![name] = value])
    /\ UNCHANGED <<strict_checks, orchVars, checkVars, calcVars, sysVars>>

\* the list in a field of the input record has one more text
AddEntry ==
    /\ IsNone(strict_checks)
    /\ LET issue == Val(strict_issue) IN
       /\ Len(Entries(issue.changelog)) + Len(Entries(issue.comments)) < MaxEntries
       /\ \E name \in StrictFields : \E text \in StrictTexts :
             /\ IsSome(issue[name]) /\ IsSome(Val(issue[name]))
             /\ strict_issue' =
                    Some([issue EXCEPT ![name] = ListOf(Append(Entries(@), text))])
    /\ UNCHANGED <<strict_checks, orchVars, checkVars, calcVars, sysVars>>

\* the body of the loop over one employee's issues (lines 167-219): the
\* checks of the issue and its grade
BuildReport ==
    /\ IsNone(strict_checks)
    /\ \E checks \in {<<TaskCancellationC7(Val(strict_issue)),
                         DocumentationC10(Val(strict_issue))>>
                       \o _manual_checks(Val(strict_issue))} :
          strict_checks' = Some([checks |-> checks,
                                 good_bad_unknown |-> _score_issue(checks)])
    /\ UNCHANGED <<strict_issue, orchVars, checkVars, calcVars, sysVars>>

SpecStrict == InitStrict /\ [][SupplyField \/ AddEntry \/ BuildReport]_vars

-----------------------------------------------------------------------------
(* _generate_recommendations applied to any list of audit results.  The     *)
(* list is built one result at a time; a result carries the outcome of the  *)
(* criteria of RecCriteria, in declaration order, or none (verdict ERROR).  *)

MaxResults == 4

RecCriteria == <<"mit_planning", "status_hygiene", "task_cancellation">>

\* an audit result as _evaluate_ticket returns it for ticket number n; the
\* reason of each failure names the ticket
AuditResult(n, statuses) ==
    [issue_key |-> KeyOf(n),
     overall_status |-> IF statuses = <<>> THEN "ERROR"
                        ELSE _calculate_overall_status(
                                [i \in 1..Len(statuses) |->
                                    [check_id |-> RecCriteria[i],
                                     result |-> Result(statuses[i], "", <<>>)]], <<>>),
     is_mit |-> None,
     criteria_results |->
        [i \in 1..Len(statuses) |->
            [check_id |-> RecCriteria[i],
             result |-> Result(statuses[i],
                               IF statuses[i] = "Fail" THEN "Failed for" ELSE "",
                               IF statuses[i] = "Fail" THEN <<KeyOf(n)>> ELSE <<>>)]],
     zero_tolerance_violations |-> <<>>,
     evaluated |-> [i \in 1..Len(statuses) |-> RecCriteria[i]],
     classified |-> statuses # <<>>, raised |-> FALSE,
     stop_evaluation |-> FALSE]

InitRecs ==
    /\ settings = None /\ ticket_keys = <<>> /\ tickets_data = <<>>
    /\ audit_results = <<>>
    /\ pc = "results"
    /\ report = None
    /\ IdleCheck /\ IdleCalc /\ IdleStrict /\ IdleSys

\* one more audit result
AddResult ==
    /\ pc = "results"
    /\ Len(audit_results) < MaxResults
    /\ \E statuses \in {<<>>} \cup [1..Len(RecCriteria) -> {"Pass", "Fail"}] :
          audit_results' = Append(audit_results,
                                  AuditResult(Len(audit_results) + 1, statuses))
    /\ UNCHANGED <<settings, ticket_keys, tickets_data, pc, report>>
    /\ UNCHANGED <<checkVars, calcVars, strictVars, sysVars>>

\* _generate_executive_summary(audit_results) and
\* _generate_recommendations(audit_results)
Recommend ==
    /\ pc = "results"
    /\ pc' = "done"
    /\ \E zt \in ZeroToleranceConfigs :
          report' = Some([zero_tolerance_criteria |-> zt,
                          summary |-> _generate_executive_summary(audit_results),
                          recommendations |-> _generate_recommendations(audit_results, zt)])
    /\ UNCHANGED <<settings, ticket_keys, tickets_data, audit_results>>
    /\ UNCHANGED <<checkVars, calcVars, strictVars, sysVars>>

SpecRecs == InitRecs /\ [][AddResult \/ Recommend]_vars

-----------------------------------------------------------------------------
(* Properties of the orchestrator *)

\* the audit results returned by _evaluate_ticket (an exception returns none)
ReturnedResults == {n \in 1..Len(audit_results) : ~audit_results[n].raised}

\* the place of a criterion in the fixed evaluation order
Pos(check_id) == CHOOSE i \in 1..Len(all_checks) : all_checks[i] = check_id

\* the entries of a criteria_results flagged zero-tolerance
Flagged(cr) == {n \in 1..Len(cr) : cr[n].result.zero_tolerance}

\* C1: whenever a criterion recorded for a ticket carries a zero-tolerance
\* result, the ticket's overall verdict is ZERO_TOLERANCE_FAIL, whatever the
\* other criteria returned and whether or not evaluation stops on it.
C1_ZeroToleranceForcesVerdict ==
    \A n \in ReturnedResults :
        Flagged(audit_results[n].criteria_results) # {}
            => audit_results[n].overall_status = "ZERO_TOLERANCE_FAIL"

\* a cancelled ticket without approval was evaluated to the end (policy off),
\* other criteria failing and passing next to the violation
C1_Witness ==
    \E n \in ReturnedResults :
        LET r == audit_results[n] IN
        /\ ~Val(settings).zero_tolerance_stops_evaluation
        /\ Flagged(r.criteria_results) # {}
        /\ Len(r.criteria_results) = Len(all_checks)
        /\ \E m \in 1..Len(r.criteria_results) :
              ~r.criteria_results[m].result.zero_tolerance
              /\ r.criteria_results[m].result.status = "Fail"
        /\ r.overall_status = "ZERO_TOLERANCE_FAIL"

\* C3: with zero_tolerance_stops_evaluation on, a zero-tolerance result is the
\* last step of a ticket's evaluation: no criterion later in the fixed order
\* was evaluated, and criteria_results has no entry for one.
C3_StopOnZeroTolerance ==
    Val(settings).zero_tolerance_stops_evaluation =>
        \A n \in 1..Len(audit_results) :
            LET r == audit_results[n] IN
            \A z \in Flagged(r.criteria_results) :
                /\ \A m \in 1..Len(r.criteria_results) :
                      Pos(r.criteria_results[m].check_id) <= Pos(r.criteria_results[z].check_id)
                /\ \A m \in 1..Len(r.evaluated) :
                      Pos(r.evaluated[m]) <= Pos(r.criteria_results[z].check_id)

\* the policy is on and a ticket's evaluation was halted by its cancellation
C3_Witness ==
    /\ IsSome(settings) /\ Val(settings).zero_tolerance_stops_evaluation
    /\ \E n \in ReturnedResults :
          LET r == audit_results[n] IN
          /\ Flagged(r.criteria_results) # {}
          /\ r.criteria_results[Len(r.criteria_results)].check_id = "task_cancellation"
          /\ r.overall_status = "ZERO_TOLERANCE_FAIL"

\* C5: a ticket that carries the fetch-error sentinel is answered with ERROR,
\* no criteria, no violations; no check and no classification ran on it.
C5_FetchErrorShortCircuits ==
    \A n \in 1..Len(audit_results) :
        IsSome(tickets_data[n].fetch_error) =>
            /\ audit_results[n].overall_status = "ERROR"
            /\ audit_results[n].criteria_results = <<>>
            /\ audit_results[n].zero_tolerance_violations = <<>>
            /\ audit_results[n].evaluated = <<>>
            /\ ~audit_results[n].classified
            /\ ~audit_results[n].raised

\* a ticket whose fetch failed was evaluated, next to one that was fetched
C5_Witness ==
    \E n, m \in 1..Len(audit_results) :
        /\ IsSome(tickets_data[n].fetch_error)
        /\ audit_results[n].overall_status = "ERROR"
        /\ IsNone(tickets_data[m].fetch_error)
        /\ Len(audit_results[m].criteria_results) > 0

\* C6: rule evaluation never raises: generate_audit_report is never left by an
\* exception, and at its end every submitted ticket has exactly one audit
\* result, in submission order.
C6_EvaluationNeverRaises ==
    /\ pc # "raised"
    /\ \A n \in 1..Len(audit_results) : ~audit_results[n].raised
    /\ pc = "done" =>
          /\ Len(audit_results) = Len(ticket_keys)
          /\ \A n \in 1..Len(ticket_keys) : audit_results[n].issue_key = ticket_keys[n]

\* C7: a fetched ticket evaluated without a zero-tolerance halt has, for every
\* criterion that does not apply to its class, an entry NA in criteria_results,
\* and the criterion's check did not run.
C7_InapplicableRecordedNA ==
    \A n \in ReturnedResults :
        LET r == audit_results[n]
            inapplicable ==
                IF IsNone(r.is_mit) THEN {}
                ELSE IF Val(r.is_mit) THEN {"non_mit_tracking"}
                ELSE {"mit_planning", "mit_creation", "mit_completion"}
        IN  (IsNone(tickets_data[n].fetch_error) /\ ~r.stop_evaluation) =>
                \A c \in inapplicable :
                    /\ \E m \in 1..Len(r.criteria_results) :
                          /\ r.criteria_results[m].check_id = c
                          /\ r.criteria_results[m].result.status = "NA"
                    /\ ~InList(c, r.evaluated)

\* a non-MIT ticket and a MIT ticket were both evaluated to the end
C7_Witness ==
    \E n, m \in ReturnedResults :
        /\ audit_results[n].is_mit = Some(FALSE)
        /\ audit_results[m].is_mit = Some(TRUE)
        /\ Len(audit_results[n].criteria_results) = Len(all_checks)
        /\ Len(audit_results[m].criteria_results) = Len(all_checks)
        /\ ~audit_results[n].stop_evaluation /\ ~audit_results[m].stop_evaluation

\* C4: when no zero-tolerance violation was recorded, the overall verdict is
\* NON-COMPLIANT exactly if some recorded criterion result is Fail, and
\* COMPLIANT otherwise; so results that are Pass, NA, Unknown or
\* NeedsManualReview never make it NON-COMPLIANT.
C4_NonCompliantIffFail ==
    /\ \A n \in ReturnedResults :
          LET r == audit_results[n] IN
          (IsNone(tickets_data[n].fetch_error) /\ r.zero_tolerance_violations = <<>>) =>
              r.overall_status =
                  IF \E m \in 1..Len(r.criteria_results) :
                        r.criteria_results[m].result.status = "Fail"
                  THEN "NON-COMPLIANT" ELSE "COMPLIANT"
    /\ (IsSome(calc_out) /\ Val(calc_args).zero_tolerance_violations = <<>>) =>
          Val(calc_out) =
              IF \E m \in 1..Len(Val(calc_args).criteria_results) :
                    Val(calc_args).criteria_results[m].result.status = "Fail"
              THEN "NON-COMPLIANT" ELSE "COMPLIANT"

\* criteria results without Fail and without Pass gave COMPLIANT
C4_Witness ==
    /\ IsSome(calc_out) /\ Val(calc_out) = "COMPLIANT"
    /\ Val(calc_args).zero_tolerance_violations = <<>>
    /\ \E m \in 1..Len(Val(calc_args).criteria_results) :
          Val(calc_args).criteria_results[m].result.status = "Unknown"
    /\ \E m \in 1..Len(Val(calc_args).criteria_results) :
          Val(calc_args).criteria_results[m].result.status = "NeedsManualReview"

-----------------------------------------------------------------------------
(* Properties of the single checks *)

\* the positions <<issue, history, item>> of the changelog items of the list
Positions ==
    UNION {UNION {{<<n, h, k>> : k \in 1..Len(Val(issues[n].changelog)[h])} :
                  h \in 1..Len(Get(issues[n].changelog, <<>>))} :
           n \in 1..Len(issues)}
EntryAt(p) == Val(issues[p[1]].changelog)[p[2]][p[3]]

\* q is visited before p when the list is walked issue by issue, history by
\* history, item by item
Before(q, p) ==
    \/ q[1] < p[1]
    \/ q[1] = p[1] /\ q[2] < p[2]
    \/ q[1] = p[1] /\ q[2] = p[2] /\ q[3] < p[3]

\* the status changes that leave a known state for a state outside its legal set
InvalidPositions ==
    {p \in Positions :
        /\ EntryAt(p).field = "status"
        /\ EntryAt(p).fromString \in DOMAIN VALID_TRANSITIONS
        /\ EntryAt(p).toString \notin VALID_TRANSITIONS[EntryAt(p).fromString]}

\* C8: Status Hygiene fails exactly when some status change leaves a known
\* state for a state outside its legal set (To Do -> Done is one, To Do ->
\* In Progress -> Done has none); an unknown from-state never fails; the
\* result is NA exactly for the empty list and Pass otherwise; a Fail reports
\* the first three invalid transitions in traversal order and no more.
C8_StatusHygieneVerdict ==
    (mode = "status_hygiene" /\ IsSome(check_result)) =>
    LET r == Val(check_result)
        bad == InvalidPositions
        Rank(p) == Cardinality({q \in bad : Before(q, p)}) + 1
    IN  /\ "Done" \notin VALID_TRANSITIONS["To Do"]
        /\ "In Progress" \in VALID_TRANSITIONS["To Do"]
        /\ "Done" \in VALID_TRANSITIONS["In Progress"]
        /\ r.status = "Fail" <=> bad # {}
        /\ r.status = "NA" <=> Len(issues) = 0
        /\ r.status \in {"Fail", "NA", "Pass"}
        /\ r.status = "Fail" =>
              /\ Len(r.reason.items) = (IF Cardinality(bad) < 3 THEN Cardinality(bad) ELSE 3)
              /\ \A p \in bad : Rank(p) <= 3 =>
                    r.reason.items[Rank(p)] =
                        [key |-> issues[p[1]].key,
                         fromString |-> EntryAt(p).fromString,
                         toString |-> EntryAt(p).toString]

\* four invalid transitions in two issues, three of them reported
C8_Witness ==
    /\ mode = "status_hygiene" /\ IsSome(check_result)
    /\ Val(check_result).status = "Fail"
    /\ Cardinality(InvalidPositions) = 4
    /\ {p[1] : p \in InvalidPositions} = {1, 2}
    /\ Len(Val(check_result).reason.items) = 3

\* the statuses recorded in the status-change history of an issue, with its
\* current status
PassedThrough(issue) ==
    LET items == ChangelogItems(issue)
        changes == {n \in 1..Len(items) : items[n].field = "status"}
    IN  {items[n].fromString : n \in changes} \cup {items[n].toString : n \in changes}
        \cup {Val(issue.status)}

\* C9: Lifecycle Adherence fails exactly when some issue is Done and In
\* Progress is not among the statuses its history records, its current status
\* included; the reason then names the issue with "Skipped In Progress".
C9_LifecycleFailIffSkipped ==
    (mode = "lifecycle_adherence" /\ IsSome(check_result)) =>
    LET r == Val(check_result)
        skipped == {n \in 1..Len(issues) :
                       /\ Val(issues[n].status) = "Done"
                       /\ "In Progress" \notin PassedThrough(issues[n])}
    IN  /\ r.status = "Fail" <=> skipped # {}
        /\ r.status = "Fail" =>
              \A n \in skipped :
                 InList([key |-> issues[n].key, what |-> "Skipped In Progress"],
                        r.reason.items)

\* the texts of the comments and of the changelog entries of an issue
EvidenceTexts(issue) ==
    {Get(Comments(issue)[n].body, <<>>) : n \in 1..Len(Comments(issue))}
    \cup {ChangelogItems(issue)[n].toString : n \in 1..Len(ChangelogItems(issue))}

Cancelled == {n \in 1..Len(issues) : Val(issues[n].status) = "Cancelled"}
Approved(issue) ==
    \E t \in EvidenceTexts(issue) : \E k \in APPROVAL_KEYWORDS : Contains(k, lower(t))

\* C10: the Cancellation check passes a list whose cancelled issues all carry
\* an approval keyword in their comments or changelog (a list without a
\* cancelled issue among them); a cancelled issue with comments or changelog
\* but no approval keyword makes it a zero-tolerance Fail naming the issue.
C10_CancellationOutcome ==
    (mode = "task_cancellation" /\ IsSome(check_result)) =>
    LET r == Val(check_result) IN
    /\ (\A n \in Cancelled : Approved(issues[n])) => r.status = "Pass"
    /\ \A n \in Cancelled :
          (/\ IsSome(issues[n].comment) \/ IsSome(issues[n].changelog)
           /\ ~Approved(issues[n]))
          => /\ r.status = "Fail" /\ r.zero_tolerance
             /\ InList(issues[n].key, r.reason.items)

\* C2: a cancelled issue with no comments and no changelog gets UNKNOWN with
\* severity CRITICAL-UNKNOWN from criterion C7 of the strict audit.
C2_NoEvidenceIsUnknown ==
    IsSome(strict_checks) =>
    LET issue == Val(strict_issue)
        c7 == Val(strict_checks).checks[1]
    IN  (/\ lower(Get(issue.status, <<>>)) = T_cancelled
         /\ issue.comments \in {Absent, ListOf(<<>>)}
         /\ issue.changelog = Absent)
        => c7.result = "UNKNOWN" /\ c7.severity = "CRITICAL-UNKNOWN"

\* the categories under which the first violation of a ticket may be reported
RoleCategories(issue) ==
    (IF IsNone(issue.assignee) THEN {"No assignee"} ELSE {})
    \cup (IF IsNone(issue.reporter) THEN {"No reporter"} ELSE {})
    \cup (IF IsSome(issue.assignee) /\ issue.assignee = issue.reporter
          THEN {"Reporter=Assignee"} ELSE {})

\* C11: Role Ownership fails exactly when some ticket lacks its reporter or
\* its assignee or has the same account in both, passes otherwise and never
\* raises; a Fail names one category, that of the first violating ticket.
C11_RoleOwnershipVerdict ==
    (mode = "roles_and_access" /\ IsSome(check_result)) =>
    LET r == Val(check_result)
        bad == {n \in 1..Len(issues) : RoleCategories(issues[n]) # {}}
        first == CHOOSE n \in bad : \A m \in bad : n <= m
    IN  /\ r.status \in {"Fail", "Pass"}
        /\ r.status = "Fail" <=> bad # {}
        /\ r.status = "Fail" =>
              /\ Cardinality({r.reason.items[i].what : i \in 1..Len(r.reason.items)}) = 1
              /\ r.reason.items[1].what \in RoleCategories(issues[first])

\* the comments of the list, and those written by the subject within the period
AllComments == Flatten([n \in 1..Len(issues) |-> Comments(issues[n])])
Qualifying ==
    {n \in 1..Len(AllComments) :
        /\ AllComments[n].author = SUBJECT
        /\ Val(AllComments[n].created) \in PERIOD}
QualifyingOn(wd) == \E n \in Qualifying : Weekday(Val(AllComments[n].created)) = wd

\* C12: when every comment qualifies, Update Frequency passes with a comment
\* on Wednesday and on Friday, is Partial with a comment on one of the two
\* days only, and fails with a comment on neither.
C12_UpdateFrequencyThreeOutcomes ==
    (/\ mode = "weekly_updates" /\ IsSome(check_result)
     /\ Qualifying = 1..Len(AllComments)) =>
    LET r == Val(check_result) IN
    /\ (QualifyingOn(WEDNESDAY) /\ QualifyingOn(FRIDAY)) => r.status = "Pass"
    /\ (QualifyingOn(WEDNESDAY) /\ ~QualifyingOn(FRIDAY)) => r.status = "Partial"
    /\ (~QualifyingOn(WEDNESDAY) /\ QualifyingOn(FRIDAY)) => r.status = "Partial"
    /\ (~QualifyingOn(WEDNESDAY) /\ ~QualifyingOn(FRIDAY)) => r.status = "Fail"

\* C13: Update Frequency passes only if the subject wrote a comment on the
\* Wednesday and on the Friday of the period.
C13_OnlyQualifyingCommentsCount ==
    (mode = "weekly_updates" /\ IsSome(check_result)) =>
    (Val(check_result).status = "Pass"
        => QualifyingOn(WEDNESDAY) /\ QualifyingOn(FRIDAY))

\* the description is long enough for the check (longer than DOC_MIN_DESC)
LongEnough(issue) == Len(Get(issue.description, <<>>)) >= DOC_MIN_DESC + 1
\* the ticket has a link or an attachment
Traceable(issue) == Len(issue.issuelinks) > 0 \/ Len(Get(issue.attachment, <<>>)) > 0

\* the reason the check gives when the only violation is a missing description
ShortDescriptionReason ==
    DocumentationCheck(<<[GoodTicket EXCEPT !.description = None]>>).reason.text

\* C14: Documentation passes exactly when every ticket has a long enough
\* description and a link or an attachment; a Fail states the category of the
\* first violation: the incomplete description, or, the description being
\* long enough, the missing traceability links.
C14_DocumentationVerdict ==
    (mode = "documentation_traceability" /\ IsSome(check_result)) =>
    LET r == Val(check_result)
        bad == {n \in 1..Len(issues) : ~(LongEnough(issues[n]) /\ Traceable(issues[n]))}
        first == CHOOSE n \in bad : \A m \in bad : n <= m
    IN  /\ r.status \in {"Fail", "Pass"}
        /\ r.status = "Pass" <=> bad = {}
        /\ r.status = "Fail" =>
              IF LongEnough(issues[first])
              THEN r.reason.text # ShortDescriptionReason
              ELSE r.reason.text = ShortDescriptionReason

-----------------------------------------------------------------------------
(* Properties of the classifier *)

\* the ticket carries the signal the configured strategy looks for
HasSignal(ticket, mit_config) ==
    CASE mit_config.method = "label" -> ticket.labels # <<>>
      [] mit_config.method = "custom_field" -> IsSome(ticket.customfield)
      [] mit_config.method = "issue_type" -> IsSome(ticket.issuetype)
      [] mit_config.method = "naming_pattern" -> IsSome(ticket.summary)
      [] OTHER -> FALSE

\* C15: the classifier returns MIT or NonMIT for every ticket, fields missing
\* or null included, and under every strategy, without raising; a ticket
\* without the signal of the strategy, or an unknown strategy, gives NonMIT.
C15_ClassifierTotal ==
    (IsSome(calc_out) /\ IsSome(calc_args)) =>
    LET a == Val(calc_args) IN
    /\ ~Val(calc_out).raised
    /\ ~HasSignal(a.ticket, a.mit_config) => Val(calc_out).value = Some(FALSE)

\* C16: under naming_pattern a ticket with a summary is a MIT exactly when the
\* configured token occurs in the summary, letter case ignored on both sides.
C16_NamingPatternIgnoresCase ==
    (/\ IsSome(calc_out) /\ IsSome(calc_args)
     /\ Val(calc_args).mit_config.method = "naming_pattern"
     /\ IsSome(Val(calc_args).ticket.summary)) =>
    LET a == Val(calc_args) IN
    Val(calc_out).value = Some(Contains(lower(a.mit_config.naming_pattern),
                                        lower(Val(a.ticket.summary))))

-----------------------------------------------------------------------------
(* Properties of the MIT checks within the audit *)

\* the tickets of the finished audit that were classified MIT, and those of
\* them that are not closed
MitTickets == {n \in 1..Len(audit_results) : audit_results[n].is_mit = Some(TRUE)}
OpenMitTickets ==
    {n \in MitTickets : Val(tickets_data[n].status) \notin {"Done", "Closed", "Cancelled"}}

\* C17: in a finished audit the MIT Planning result of a MIT ticket is Pass
\* exactly when the audit holds 3 to 5 MIT tickets, and its MIT Completion
\* result is Fail exactly when some MIT ticket is open, the reason listing
\* the keys of the open MIT tickets and no other.
C17_MitChecksOverMitSubset ==
    pc = "done" =>
    \A n \in MitTickets :
    \A i \in 1..Len(audit_results[n].criteria_results) :
       LET entry == audit_results[n].criteria_results[i] IN
       /\ entry.check_id = "mit_planning" =>
             (entry.result.status = "Pass"
                <=> Cardinality(MitTickets) \in MIT_MIN..MIT_MAX)
       /\ entry.check_id = "mit_completion" =>
             /\ entry.result.status = "Fail" <=> OpenMitTickets # {}
             /\ entry.result.status = "Fail" =>
                   {entry.result.reason.items[k] :
                       k \in 1..Len(entry.result.reason.items)}
                   = {tickets_data[m].key : m \in OpenMitTickets}

\* C18: applied to the empty ticket list, every automatable check returns NA.
C18_EmptyListIsNotApplicable ==
    (mode \in AutomatableChecks /\ IsSome(check_result) /\ issues = <<>>) =>
    Val(check_result).status = "NA"

-----------------------------------------------------------------------------
(* Properties of the recommendations *)

Recommendations == Val(report).recommendations

Criteria == {all_checks[i] : i \in 1..Len(all_checks)}

\* the audit results whose result for the criterion is Fail, in audit order
FailedResults(criterion) ==
    SelectSeq([n \in 1..Len(audit_results) |-> n],
        LAMBDA n : \E i \in 1..Len(audit_results[n].criteria_results) :
            /\ audit_results[n].criteria_results[i].check_id = criterion
            /\ audit_results[n].criteria_results[i].result.status = "Fail")

\* the reason recorded for the criterion in audit result n
ReasonOf(n, criterion) ==
    LET cr == audit_results[n].criteria_results
    IN  cr[CHOOSE i \in 1..Len(cr) : cr[i].check_id = criterion].result.reason

\* C19: the recommendations are in order of non-increasing failure count,
\* and of two criteria with the same failure count the one declared first
\* comes first.
C19_RecommendationOrder ==
    IsSome(report) =>
    \A p, q \in 1..Len(Recommendations) :
        p < q =>
        \/ Recommendations[p].failed_count > Recommendations[q].failed_count
        \/ /\ Recommendations[p].failed_count = Recommendations[q].failed_count
           /\ Pos(Recommendations[p].criterion) < Pos(Recommendations[q].criterion)

\* C20: there is exactly one recommendation for each criterion with a Fail
\* and none for another; its failure count is the number of audit results
\* failing the criterion; its priority is CRITICAL for a zero-tolerance
\* criterion, else HIGH for a count above 3, else MEDIUM; its examples are
\* the first failures in audit order, at most 3, each with the key and the
\* reason of the audit result.
C20_OneRecommendationPerFailedCriterion ==
    IsSome(report) =>
    /\ \A c \in Criteria :
          Cardinality({p \in 1..Len(Recommendations) : Recommendations[p].criterion = c})
          = IF FailedResults(c) # <<>> THEN 1 ELSE 0
    /\ \A p \in 1..Len(Recommendations) :
          LET rec == Recommendations[p]
              failed == FailedResults(rec.criterion)
          IN  /\ rec.criterion \in Criteria
              /\ rec.failed_count = Len(failed)
              /\ rec.priority =
                    IF rec.criterion \in Val(report).zero_tolerance_criteria THEN "CRITICAL"
                    ELSE IF Len(failed) > 3 THEN "HIGH" ELSE "MEDIUM"
              /\ Len(rec.examples) = IF Len(failed) < 3 THEN Len(failed) ELSE 3
              /\ \A k \in 1..Len(rec.examples) :
                    /\ rec.examples[k].issue_key = audit_results[failed[k]].issue_key
                    /\ rec.examples[k].reason = ReasonOf(failed[k], rec.criterion)

\* a report with a HIGH recommendation whose examples were cut to three, a
\* MEDIUM one and a CRITICAL one
C20_Witness ==
    /\ IsSome(report)
    /\ \E p, q, r \in 1..Len(Recommendations) :
          /\ Recommendations[p].priority = "HIGH"
          /\ Recommendations[p].failed_count > Len(Recommendations[p].examples)
          /\ Recommendations[q].priority = "MEDIUM"
          /\ Recommendations[r].priority = "CRITICAL"

-----------------------------------------------------------------------------
(* Properties of the executive summary *)

WithStatus(status) ==
    {n \in 1..Len(audit_results) : audit_results[n].overall_status = status}

-----------------------------------------------------------------------------
(* Properties of the heuristic checks within the audit *)

\* the criteria_results entries of n whose check reads a field the ticket
\* came without: the comment field, the changelog
MissingSignalEntries(n) ==
    {i \in 1..Len(audit_results[n].criteria_results) :
        LET check_id == audit_results[n].criteria_results[i].check_id IN
        \/ check_id = "missing_comments" /\ IsNone(tickets_data[n].comment)
        \/ check_id = "history_integrity" /\ IsNone(tickets_data[n].changelog)}

\* C22: a check whose field was not supplied with the ticket returns Unknown
\* or NeedsManualReview, never Pass.
C22_MissingSignalNeverPass ==
    \A n \in ReturnedResults :
    \A i \in MissingSignalEntries(n) :
        audit_results[n].criteria_results[i].result.status
            \in {"Unknown", "NeedsManualReview"}

\* C23: a heuristic check other than History Integrity never returns a
\* zero-tolerance result, and History Integrity returns a zero-tolerance Fail
\* for a list with a ticket whose changelog holds a burst of status changes
\* (more than BURST_HISTORIES histories).
C23_OnlyHistoryIntegrityIsZeroTolerance ==
    (mode \in HeuristicChecks /\ IsSome(check_result)) =>
    /\ mode # "history_integrity" => ~Val(check_result).zero_tolerance
    /\ (/\ mode = "history_integrity"
        /\ \E n \in 1..Len(issues) :
              Len(Get(issues[n].changelog, <<>>)) > BURST_HISTORIES)
       => /\ Val(check_result).status = "Fail"
          /\ Val(check_result).zero_tolerance

-----------------------------------------------------------------------------
(* Properties of repeated evaluation *)

-----------------------------------------------------------------------------
(* Properties of the weekly employee report *)

\* the checks of the week that failed or raised, evaluated on the week's issues
FailedOfWeek ==
    {WeekChecks[n] : n \in {k \in 1..Len(WeekChecks) :
        WeekEvaluate(WeekChecks[k], issues).status \in {"Fail", "RAISE"}}}

\* C25: the Overall Compliance of an employee-week is Fail exactly when at
\* least one of its checks failed or raised; a week whose checks all pass is
\* Pass, a week with an unauthorized cancellation is Fail.
C25_OverallFailIffSomeCheckFailed ==
    (mode = "employee_week" /\ IsSome(check_result) /\ IsSome(Val(check_result))) =>
    (Val(Val(check_result)).overall_compliance = "Fail" <=> FailedOfWeek # {})

-----------------------------------------------------------------------------
(* Properties of the audit as a whole *)

\* the status recorded for the criterion in audit result n
StatusOf(n, criterion) ==
    LET cr == audit_results[n].criteria_results
    IN  cr[CHOOSE i \in 1..Len(cr) : cr[i].check_id = criterion].result.status

\* C26: no audit result is COMPLIANT: the result of a fetched ticket records
\* a Fail of mit_planning if the ticket is a MIT and a Fail of
\* non_mit_tracking if it is not, so every result is NON-COMPLIANT,
\* ZERO_TOLERANCE_FAIL or ERROR, and the compliance rate of the report is 0.
C26_NoTicketIsCompliant ==
    /\ \A n \in ReturnedResults :
          /\ audit_results[n].overall_status
                \in {"NON-COMPLIANT", "ZERO_TOLERANCE_FAIL", "ERROR"}
          /\ audit_results[n].is_mit = Some(TRUE) => StatusOf(n, "mit_planning") = "Fail"
          /\ audit_results[n].is_mit = Some(FALSE) => StatusOf(n, "non_mit_tracking") = "Fail"
    /\ IsSome(report) => Val(report).summary.compliance_rate.num = 0

\* a finished audit of a MIT ticket and of a ticket that is not a MIT, neither
\* with a zero-tolerance violation
C26_Witness ==
    /\ pc = "done"
    /\ Val(report).summary.total_audited > 1
    /\ \E n, m \in ReturnedResults :
          /\ audit_results[n].is_mit = Some(TRUE)
          /\ audit_results[m].is_mit = Some(FALSE)
          /\ audit_results[n].overall_status = "NON-COMPLIANT"
          /\ audit_results[m].overall_status = "NON-COMPLIANT"

-----------------------------------------------------------------------------
(* Properties of the strict audit *)

\* the positions of the checks of the issue with one of the results
WithResult(results) ==
    {n \in 1..Len(Val(strict_checks).checks) :
        Val(strict_checks).checks[n].result \in results}

\* C27: the 13 checks of an issue hold at most 3 PASS results, none outside
\* C7, C10 and M2, and at least 10 UNKNOWN or NEEDS_MANUAL_REVIEW results, and
\* the grade of the issue is BAD or UNKNOWN, never GOOD.
C27_NoIssueIsGood ==
    IsSome(strict_checks) =>
    /\ Len(Val(strict_checks).checks) = 13
    /\ Cardinality(WithResult({"PASS"})) <= 3
    /\ \A n \in WithResult({"PASS"}) :
          Val(strict_checks).checks[n].criterion_id \in {"C7", "C10", "M2"}
    /\ Cardinality(WithResult({"UNKNOWN", "NEEDS_MANUAL_REVIEW"})) >= 10
    /\ Val(strict_checks).good_bad_unknown \in {"BAD", "UNKNOWN"}

\* an issue with three PASS results and no failure is graded UNKNOWN
C27_Witness ==
    /\ IsSome(strict_checks)
    /\ Cardinality(WithResult({"PASS"})) = 3
    /\ WithResult({"FAIL"}) = {}
    /\ Cardinality(WithResult({"UNKNOWN"})) < 3
    /\ Val(strict_checks).good_bad_unknown = "UNKNOWN"

-----------------------------------------------------------------------------
(* Properties of Status Hygiene and Lifecycle together *)

\* every status change of the ticket's history is legal under VALID_TRANSITIONS
AllLegal ==
    \A h \in 1..Len(Get(issues[1].changelog, <<>>)) :
        LET item == Val(issues[1].changelog)[h][1]
        IN  item.toString \in VALID_TRANSITIONS[item.fromString]

\* C28: for a ticket whose history is a chain from To Do or Backlog to its
\* current status Done, every change legal under VALID_TRANSITIONS, Status
\* Hygiene passes and Lifecycle passes.
C28_LegalPathToDonePassesLifecycle ==
    (mode = "chain" /\ IsSome(check_result)
       /\ AllLegal /\ issues[1].status = Some("Done")) =>
    /\ Val(check_result).status_hygiene.status = "Pass"
    /\ Val(check_result).lifecycle_adherence.status = "Pass"

\* a legal chain of four changes that ends in Done was evaluated
C28_Witness ==
    /\ mode = "chain" /\ IsSome(check_result)
    /\ AllLegal /\ issues[1].status = Some("Done")
    /\ Len(Val(issues[1].changelog)) = 4
    /\ Val(check_result).lifecycle_adherence.status = "Pass"

-----------------------------------------------------------------------------
(* Properties of the data service cache *)

\* the entry of the call's key existed before the call and was younger than
\* the TTL
HadFreshEntry(call) ==
    /\ call.key \in DOMAIN call.before
    /\ call.at - call.before[call.key].cached_time < CACHE_TTL

\* the entries of the keys other than the call's are as before the call
OtherEntriesKept(call) ==
    \A k \in CacheKeys \ {call.key} :
        /\ k \in DOMAIN _cache <=> k \in DOMAIN call.before
        /\ k \in DOMAIN _cache => _cache[k] = call.before[k]

\* C29: a get_live_data call returns the stored list without generating
\* anything iff an entry of its key exists and is younger than 300 seconds;
\* otherwise it generates the list, stores it with the current time and
\* returns it; the entries of other keys are unchanged; after clear_cache
\* the cache is empty, so that the next call of every key generates.
C29_CacheHitIffFreshElseStored ==
    IsSome(last_call) =>
    LET call == Val(last_call)
    IN  /\ call.op = "get_live_data" =>
            /\ ~call.generated <=> HadFreshEntry(call)
            /\ ~call.generated =>
                  /\ call.outcome = "returned"
                  /\ call.data = call.before[call.key].cached_data
                  /\ _cache = call.before
            /\ call.generated =>
                  /\ call.outcome = "returned"
                  /\ call.key \in DOMAIN _cache
                  /\ _cache[call.key] = [cached_data |-> call.data,
                                         cached_time |-> call.done]
            /\ OtherEntriesKept(call)
        /\ call.op = "clear_cache" => DOMAIN _cache = {}

-----------------------------------------------------------------------------
(* Properties of incremental synchronisation *)

\* the completed incremental runs that follow a completed run
FollowUpRuns ==
    {r \in 2..Len(etl_runs) :
        /\ etl_runs[r].status = "completed"
        /\ etl_runs[r].run_type = "incremental"
        /\ \E q \in 1..(r - 1) : etl_runs[q].status = "completed"}

\* C30: no update is permanently skipped: an update of an issue made before
\* an incremental run that follows a completed run started (during the
\* earlier run or after it) is in the database when that run has completed.
C30_NoUpdateSkipped ==
    \A i \in 1..Len(jira_updated) :
        (\E r \in FollowUpRuns : jira_updated[i] < etl_runs[r].started_at)
            => db_synced[i] = Some(jira_updated[i])

=============================================================================
